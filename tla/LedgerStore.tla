------------------------------ MODULE LedgerStore ------------------------------
(***************************************************************************)
(* The three stores under the ledger, call by call: core/store.py (dicts   *)
(* in memory), infra/sqlite_store.py (one connection and its lock) and     *)
(* infra/dynamo_store.py (one table, read without ConsistentRead).         *)
(*                                                                         *)
(* A worker runs the shortest operation that uses every call: it records   *)
(* an acceptance, opens the receipt of the assignment (Ledger.begin),      *)
(* writes the duty, marks the receipt, reads the duty back and closes the  *)
(* receipt.  Or it loads the roster.  CoverageService takes begin for one  *)
(* step on one book; this module shows what that stands on.                *)
(***************************************************************************)
EXTENDS Integers, FiniteSets

CONSTANTS
  Workers,           \* threads that assign people or load the roster
  Duties, People,
  Backings,          \* the kinds of store that may be configured
  MaxCrashes,        \* bound: workers that die between two calls
  None               \* no item, nobody on the duty

Keys == Duties \X People

Duty(d)       == <<"duty", d>>
Ask(k)        == <<"ask", k>>
Claim(k)      == <<"claim", k>>        \* IDEM item, unique index, _keys entry
Receipt(k, w) == <<"receipt", k, w>>   \* the record worker w creates for key k

ClaimItems == {Claim(k) : k \in Keys}
ReceiptItems == {Receipt(k, w) : k \in Keys, w \in Workers}
Items == {Duty(d) : d \in Duties} \cup {Ask(k) : k \in Keys} \cup ClaimItems
           \cup ReceiptItems

Results == {"open", "executed", "verified", "conflicted", "blocked"}

ASSUME StoreAssumption ==
  /\ Backings \subseteq {"memory", "sqlite", "dynamodb"}
  /\ MaxCrashes \in Nat
  /\ None \notin People \cup Workers \cup Results \cup {"accepted"}

VARIABLES
  backing,   \* ZAMU_STORE
  item,      \* the latest version of every item
  recent,    \* the versions an eventually consistent read may still return
  lock,      \* the worker that holds the SQLite store's lock across calls
  executions,\* how often the action under a key was carried out
  pc, key,   \* where a worker is, and the key it works under
  owner,     \* the claim it found and follows to a receipt
  view,      \* what it has read of the roster
  crashes

vars == <<backing, item, recent, lock, executions, pc, key, owner, view, crashes>>

Labels == {"idle", "find", "find_receipt", "append", "put_receipt", "must_find",
           "must_find_receipt", "act", "mark", "reread", "close_verified",
           "close_conflicted", "unreadable", "read_asks", "read_grants"}

NoView == [duties |-> [d \in Duties |-> None], asks |-> [k \in Keys |-> None]]

Init ==
  /\ backing \in Backings
  /\ item = [i \in Items |-> None]
  /\ recent = [i \in Items |-> {None}]
  /\ lock = None
  /\ executions = [k \in Keys |-> 0]
  /\ pc = [w \in Workers |-> "idle"]
  /\ key = [w \in Workers |-> None]
  /\ owner = [w \in Workers |-> None]
  /\ view = [w \in Workers |-> NoView]
  /\ crashes = 0

-----------------------------------------------------------------------------
(* One store call.  Every write takes the SQLite lock; a read in DynamoDB   *)
(* may return a version that a later write has already replaced.  For how   *)
(* long is not known, and a read may always see the latest version, so no   *)
(* step is needed for a replica that catches up.                            *)

Unlocked == backing = "sqlite" => lock = None

PutAll(changed, value) ==
  /\ item' = [i \in Items |-> IF i \in changed THEN value[i] ELSE item[i]]
  /\ recent' = [i \in Items |->
                  IF i \notin changed THEN recent[i]
                  ELSE IF backing = "dynamodb" THEN recent[i] \cup {value[i]}
                  ELSE {value[i]}]

PutUnlocked(i, v) == PutAll({i}, [j \in {i} |-> v])                  \* a mutant
Put(i, v) == Unlocked /\ PutAll({i}, [j \in {i} |-> v])

Reads(i, v) == Unlocked /\ v \in recent[i]

(* A worker moves on; at the end of an operation it forgets its key.        *)
Goto(w, label) ==
  /\ pc' = [pc EXCEPT ![w] = label]
  /\ key' = IF label = "idle" THEN [key EXCEPT ![w] = None] ELSE key
  /\ owner' = [owner EXCEPT ![w] = None]

(* The part of the state that the steps of an assignment leave alone.       *)
Elsewhere == <<backing, lock, view, crashes>>

-----------------------------------------------------------------------------
(* record_response puts the accepted ask, then Ledger.begin looks for the   *)
(* key: the claim first, then the receipt it names (find_action_by_key).    *)

AcceptUnsaved(w, k) ==                                               \* a mutant
  /\ pc[w] = "idle"
  /\ pc' = [pc EXCEPT ![w] = "find"]
  /\ key' = [key EXCEPT ![w] = k]
  /\ UNCHANGED <<item, recent, executions, owner, Elsewhere>>

Accept(w, k) ==
  /\ pc[w] = "idle"
  /\ Put(Ask(k), "accepted")
  /\ pc' = [pc EXCEPT ![w] = "find"]
  /\ key' = [key EXCEPT ![w] = k]
  /\ UNCHANGED <<executions, owner, Elsewhere>>

(* The read of the claim, in begin and again after a lost race.             *)
FindClaim(w) ==
  /\ pc[w] \in {"find", "must_find"}
  /\ \E c \in Workers \cup {None} :
       /\ Reads(Claim(key[w]), c)
       /\ owner' = [owner EXCEPT ![w] = c]
       /\ pc' = [pc EXCEPT ![w] =
                   IF @ = "find" THEN IF c = None THEN "append" ELSE "find_receipt"
                                 ELSE IF c = None THEN "unreadable" ELSE "must_find_receipt"]
  /\ UNCHANGED <<item, recent, executions, key, Elsewhere>>

(* An existing receipt is a replay: the caller must not execute again.      *)
FindReceipt(w) ==
  /\ pc[w] \in {"find_receipt", "must_find_receipt"}
  /\ \E v \in Results \cup {None} :
       /\ Reads(Receipt(key[w], owner[w]), v)
       /\ Goto(w, IF v # None THEN "idle"
                  ELSE IF pc[w] = "find_receipt" THEN "append" ELSE "unreadable")
  /\ UNCHANGED <<item, recent, executions, Elsewhere>>

(* _must_find raises: the claim is there and the receipt is not (yet).      *)
RaiseUnreadable(w) ==
  /\ pc[w] = "unreadable"
  /\ Goto(w, "idle")
  /\ UNCHANGED <<item, recent, executions, Elsewhere>>

(* append_action, by store, of an open receipt (begin) or of a refusal by   *)
(* the gate (record_blocked), after which nothing is executed.              *)
Appended(w, result) == Goto(w, IF result = "open" THEN "act" ELSE "idle")

(* DynamoDB: a conditional put of the claim, then a put of the receipt.     *)
ClaimKeyAfterRead(w) ==                                              \* a mutant
  /\ pc[w] = "append" /\ backing = "dynamodb"
  /\ Put(Claim(key[w]), w)
  /\ Goto(w, "put_receipt")
  /\ UNCHANGED <<executions, Elsewhere>>

ClaimKeyOnly(w) ==                                                   \* a mutant
  /\ pc[w] = "append" /\ backing = "dynamodb"
  /\ item[Claim(key[w])] = None
  /\ Put(Claim(key[w]), w)
  /\ Goto(w, "act")
  /\ UNCHANGED <<executions, Elsewhere>>

ClaimKey(w) ==
  /\ pc[w] = "append" /\ backing = "dynamodb"
  /\ item[Claim(key[w])] = None
  /\ Put(Claim(key[w]), w)
  /\ Goto(w, "put_receipt")
  /\ UNCHANGED <<executions, Elsewhere>>

PutReceipt(w, result) ==
  /\ pc[w] = "put_receipt"
  /\ Put(Receipt(key[w], w), result)
  /\ Appended(w, result)
  /\ UNCHANGED <<executions, Elsewhere>>

ClaimAndAppend(w, result) ==
  /\ Unlocked
  /\ LET new == [i \in {Claim(key[w]), Receipt(key[w], w)} |->
                   IF i = Claim(key[w]) THEN w ELSE result]
     IN PutAll({Claim(key[w]), Receipt(key[w], w)}, new)
  /\ Appended(w, result)
  /\ UNCHANGED <<executions, Elsewhere>>

(* SQLite: one INSERT, and the unique index refuses the second.             *)
InsertReceipt(w, result) ==
  /\ pc[w] = "append" /\ backing = "sqlite"
  /\ item[Claim(key[w])] = None
  /\ ClaimAndAppend(w, result)

(* Memory: the dict entry is replaced, nothing is refused.                  *)
OverwriteKey(w, result) ==
  /\ pc[w] = "append" /\ backing = "memory"
  /\ ClaimAndAppend(w, result)

(* Conflict, which begin turns into a replay of whatever was claimed.       *)
WinClaimLate(w) ==                                                   \* a mutant
  /\ pc[w] = "append" /\ backing # "memory"
  /\ Unlocked
  /\ item[Claim(key[w])] # None
  /\ Goto(w, "act")
  /\ UNCHANGED <<item, recent, executions, Elsewhere>>

LoseClaim(w) ==
  /\ pc[w] = "append" /\ backing # "memory"
  /\ Unlocked
  /\ item[Claim(key[w])] # None
  /\ Goto(w, "must_find")
  /\ UNCHANGED <<item, recent, executions, Elsewhere>>

-----------------------------------------------------------------------------
(* The action and the rest of its receipt. *)

WriteWholeKey(w) ==                                                  \* a mutant
  /\ pc[w] = "act"
  /\ Put(Duty(key[w][1]), key[w])
  /\ executions' = [executions EXCEPT ![key[w]] = @ + 1]
  /\ Goto(w, "mark")
  /\ UNCHANGED Elsewhere

WriteDuty(w) ==
  /\ pc[w] = "act"
  /\ Put(Duty(key[w][1]), key[w][2])
  /\ executions' = [executions EXCEPT ![key[w]] = @ + 1]
  /\ Goto(w, "mark")
  /\ UNCHANGED Elsewhere

(* update_action: in DynamoDB a read first, and a put only if it found      *)
(* something; an UPDATE by id elsewhere.                                    *)
UpdateReceipt(w, from, result, to) ==
  /\ pc[w] = from
  /\ \E v \in recent[Receipt(key[w], w)] : v # None
  /\ Put(Receipt(key[w], w), result)
  /\ Goto(w, to)
  /\ UNCHANGED <<executions, Elsewhere>>

MarkExecuted(w)    == UpdateReceipt(w, "mark", "executed", "reread")
CloseVerified(w)   == UpdateReceipt(w, "close_verified", "verified", "idle")
CloseConflicted(w) == UpdateReceipt(w, "close_conflicted", "conflicted", "idle")

(* The read in front of the update did not see the receipt: NotFound, and   *)
(* the operation ends with the receipt still open.                          *)
RaiseNotFound(w) ==
  /\ pc[w] \in {"mark", "close_verified", "close_conflicted"}
  /\ None \in recent[Receipt(key[w], w)]
  /\ Goto(w, "idle")
  /\ UNCHANGED <<item, recent, executions, Elsewhere>>

(* The duty is read back and compared with what was intended.               *)
ReadBack(w) ==
  /\ pc[w] = "reread"
  /\ \E holder \in People \cup {None} :
       /\ Reads(Duty(key[w][1]), holder)
       /\ Goto(w, IF holder = key[w][2] THEN "close_verified" ELSE "close_conflicted")
  /\ UNCHANGED <<item, recent, executions, Elsewhere>>

-----------------------------------------------------------------------------
(* load_roster: the duties, then the asks, then the grants, each list a     *)
(* read of its own; the SQLite store holds its lock across them.            *)

StorePart == <<backing, item, recent, executions, crashes>>

ReadDuties(w) ==
  /\ pc[w] = "idle" /\ Unlocked
  /\ \E duties \in [Duties -> People \cup {None}] :
       /\ \A d \in Duties : duties[d] \in recent[Duty(d)]
       /\ view' = [view EXCEPT ![w].duties = duties]
  /\ lock' = IF backing = "sqlite" THEN w ELSE lock
  /\ Goto(w, "read_asks")
  /\ UNCHANGED StorePart

ReadAsks(w) ==
  /\ pc[w] = "read_asks"
  /\ \E asks \in [Keys -> {"accepted", None}] :
       /\ \A k \in Keys : asks[k] \in recent[Ask(k)]
       /\ view' = [view EXCEPT ![w].asks = asks]
  /\ Goto(w, "read_grants")
  /\ UNCHANGED <<StorePart, lock>>

(* The grants, which nobody here changes; then the lock is released.        *)
EndRead(w) ==
  /\ pc[w] = "read_grants"
  /\ lock' = IF lock = w THEN None ELSE lock
  /\ view' = [view EXCEPT ![w] = NoView]
  /\ Goto(w, "idle")
  /\ UNCHANGED StorePart

-----------------------------------------------------------------------------
Crash(w) ==
  /\ pc[w] # "idle"
  /\ crashes < MaxCrashes
  /\ crashes' = crashes + 1
  /\ view' = [view EXCEPT ![w] = NoView]
  /\ lock' = IF lock = w THEN None ELSE lock
  /\ Goto(w, "idle")
  /\ UNCHANGED <<backing, item, recent, executions>>

BeginStep(w) ==
  \/ \E k \in Keys : Accept(w, k)
  \/ FindClaim(w) \/ FindReceipt(w) \/ RaiseUnreadable(w)
  \/ ClaimKey(w) \/ LoseClaim(w)
  \/ \E result \in {"open", "blocked"} :
       PutReceipt(w, result) \/ InsertReceipt(w, result) \/ OverwriteKey(w, result)

ActStep(w) ==
  \/ WriteDuty(w) \/ MarkExecuted(w) \/ ReadBack(w)
  \/ CloseVerified(w) \/ CloseConflicted(w) \/ RaiseNotFound(w)

ReadStep(w) == ReadDuties(w) \/ ReadAsks(w) \/ EndRead(w)

Next ==
  \E w \in Workers : BeginStep(w) \/ ActStep(w) \/ ReadStep(w) \/ Crash(w)

Spec == Init /\ [][Next]_vars
-----------------------------------------------------------------------------
(* Every variable has its type (core/models.py: ActionRecord, Duty, Ask).   *)
TypeOK ==
  /\ backing \in Backings
  /\ \A d \in Duties : item[Duty(d)] \in People \cup {None}
  /\ \A k \in Keys : item[Ask(k)] \in {"accepted", None}
  /\ \A k \in Keys : item[Claim(k)] \in Workers \cup {None}
  /\ \A i \in ReceiptItems : item[i] \in Results \cup {None}
  /\ \A i \in Items : item[i] \in recent[i]
  /\ lock \in Workers \cup {None}
  /\ executions \in [Keys -> Nat]
  /\ pc \in [Workers -> Labels] /\ key \in [Workers -> Keys \cup {None}]
  /\ owner \in [Workers -> Workers \cup {None}]
  /\ view \in [Workers -> [duties : [Duties -> People \cup {None}],
                           asks : [Keys -> {"accepted", None}]]]
  /\ crashes \in Nat

(* "Two processes racing on the same idempotency key cannot both proceed"   *)
(* (dynamo_store.py), nor through SQLite's unique index: whatever workers   *)
(* retry, race or die, a key is executed once.                              *)
ExecutedOnce == backing # "memory" => \A k \in Keys : executions[k] <= 1

(* A claim without a receipt, which no later call can read, is left only by *)
(* a worker that died between its two writes (append_action).               *)
Dangling ==
  {k \in Keys :
     LET c == item[Claim(k)]
     IN /\ c # None
        /\ item[Receipt(k, c)] = None
        /\ ~(pc[c] = "put_receipt" /\ key[c] = k)}
DanglingClaimsAreCrashes == Cardinality(Dangling) <= crashes

(* "Five reads that must all describe the same instant" (sqlite_store.py):  *)
(* what a reader has read is still so while it reads on.                    *)
SnapshotIsOneInstant ==
  \A w \in Workers :
    backing = "sqlite" /\ pc[w] \in {"read_asks", "read_grants"} =>
      /\ \A d \in Duties : view[w].duties[d] = item[Duty(d)]
      /\ pc[w] = "read_grants" => \A k \in Keys : view[w].asks[k] = item[Ask(k)]

(* Where reads are consistent, a roster never shows somebody on a duty      *)
(* without the acceptance that put them there (load_roster reads the duties *)
(* before the asks, record_response writes the ask before the duty).        *)
SnapshotShowsConsent ==
  \A w \in Workers, k \in Keys :
    backing # "dynamodb" /\ pc[w] = "read_grants" /\ view[w].duties[k[1]] = k[2]
      => view[w].asks[k] = "accepted"

(* "The claim exists or the write succeeded" (ledger.py, _must_find): who   *)
(* loses a key can read the receipt of who won it.                          *)
ClaimedIsReadable == \A w \in Workers : pc[w] # "unreadable"
-----------------------------------------------------------------------------
(* In the durable stores the claims and the receipts behind them are the    *)
(* one book of ReceiptBook, on which the fill loop's model stands.          *)

BookedAs(k) ==
  LET c == item[Claim(k)]
  IN IF backing = "memory" \/ c = None \/ item[Receipt(k, c)] = None
       THEN "absent" ELSE item[Receipt(k, c)]

Book == INSTANCE ReceiptBook WITH
  receipt    <- [k \in Keys |-> BookedAs(k)],
  executions <- [k \in Keys |-> IF backing = "memory" THEN 0 ELSE executions[k]]

(* Every store call is a step of the book or leaves it alone.               *)
KeepsBook == Book!Spec
=============================================================================
