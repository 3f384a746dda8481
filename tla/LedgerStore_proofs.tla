-------------------------- MODULE LedgerStore_proofs --------------------------
(***************************************************************************)
(* Theorems of LedgerStore, for every set of workers, duties and people,   *)
(* every backing and every number of crashes.                              *)
(***************************************************************************)
EXTENDS LedgerStore, FiniteSetTheorems, TLAPS

(* The labels at which a worker works under a key.                          *)
Holding == Labels \ {"idle", "read_asks", "read_grants"}

KeyShape == \A w \in Workers : pc[w] \in Holding => key[w] \in Keys

(* What the stores hold has its type, as TypeOK says of it.                 *)
Stored ==
  /\ \A d \in Duties : item[Duty(d)] \in People \cup {None}
  /\ \A k \in Keys : item[Ask(k)] \in {"accepted", None}
  /\ \A k \in Keys : item[Claim(k)] \in Workers \cup {None}
  /\ \A i \in ReceiptItems : item[i] \in Results \cup {None}
  /\ \A i \in Items : item[i] \in recent[i]

(* What a worker knows of its key from the moment it has won the claim.     *)
Stage(w, result, times) ==
  /\ item[Claim(key[w])] = w
  /\ item[Receipt(key[w], w)] = result
  /\ executions[key[w]] = times

Knows(w) ==
  /\ pc[w] = "put_receipt" => Stage(w, None, 0)
  /\ pc[w] = "act" => Stage(w, "open", 0)
  /\ pc[w] = "mark" => Stage(w, "open", 1)
  /\ pc[w] \in {"reread", "close_verified", "close_conflicted"} => Stage(w, "executed", 1)

(* A receipt belongs to whoever holds the claim, and nothing is executed    *)
(* under a key that nobody has claimed.                                     *)
Booked ==
  /\ \A k \in Keys, w \in Workers : item[Receipt(k, w)] # None => item[Claim(k)] = w
  /\ \A k \in Keys : executions[k] \in {0, 1}
  /\ \A k \in Keys : item[Claim(k)] = None => executions[k] = 0
  /\ \A w \in Workers : Knows(w)

Inv == TypeOK /\ KeyShape /\ (backing # "memory" => Booked)

-----------------------------------------------------------------------------
(* Items. *)

LEMMA ItemsDiffer ==
  /\ \A d, e \in Duties : Duty(d) = Duty(e) => d = e
  /\ \A k, j \in Keys : Claim(k) = Claim(j) => k = j
  /\ \A k, j \in Keys : Ask(k) = Ask(j) => k = j
  /\ \A k, j \in Keys, v, w \in Workers : Receipt(k, v) = Receipt(j, w) => k = j /\ v = w
  /\ \A d \in Duties, k \in Keys : Duty(d) # Ask(k) /\ Duty(d) # Claim(k)
  /\ \A k, j \in Keys : Ask(j) # Claim(k)
  /\ \A d \in Duties, i \in ReceiptItems : Duty(d) # i
  /\ \A k \in Keys, i \in ReceiptItems : Ask(k) # i /\ Claim(k) # i
BY DEF Duty, Ask, Claim, Receipt, ReceiptItems

LEMMA ItemsThere ==
  /\ \A d \in Duties : Duty(d) \in Items
  /\ \A k \in Keys : Ask(k) \in Items /\ Claim(k) \in Items
  /\ \A k \in Keys, w \in Workers : Receipt(k, w) \in Items /\ Receipt(k, w) \in ReceiptItems
  /\ \A i \in ReceiptItems : \E k \in Keys, w \in Workers : i = Receipt(k, w)
  /\ ReceiptItems \subseteq Items
BY DEF Items, ClaimItems, ReceiptItems

LEMMA PutOne ==
  ASSUME NEW i \in Items, NEW v, Put(i, v)
  PROVE  /\ item'[i] = v
         /\ \A j \in Items \ {i} : item'[j] = item[j]
BY DEF Put, PutAll

LEMMA PutSeen ==
  ASSUME Stored, NEW i \in Items, NEW v, Put(i, v)
  PROVE  \A j \in Items : item'[j] \in recent'[j]
<1>1. ASSUME NEW j \in Items PROVE item'[j] \in recent'[j]
  BY <1>1 DEF Put, PutAll, Stored
<1> QED
  BY <1>1

LEMMA PutDutyStored ==
  ASSUME Stored, NEW d \in Duties, NEW p \in People, Put(Duty(d), p)
  PROVE  Stored'
<1>1. /\ item'[Duty(d)] = p
      /\ \A j \in Items \ {Duty(d)} : item'[j] = item[j]
      /\ \A j \in Items : item'[j] \in recent'[j]
  BY ItemsThere, PutOne, PutSeen
<1>2. \A e \in Duties : item'[Duty(e)] \in People \cup {None}
  BY <1>1, ItemsThere DEF Stored
<1>3. \A k \in Keys : item'[Ask(k)] = item[Ask(k)] /\ item'[Claim(k)] = item[Claim(k)]
  BY <1>1, ItemsThere, ItemsDiffer
<1>4. \A i \in ReceiptItems : item'[i] = item[i]
  BY <1>1, ItemsThere, ItemsDiffer
<1> QED
  BY <1>1, <1>2, <1>3, <1>4 DEF Stored

LEMMA PutAskStored ==
  ASSUME Stored, NEW k \in Keys, Put(Ask(k), "accepted")
  PROVE  /\ Stored'
         /\ \A j \in Keys : item'[Claim(j)] = item[Claim(j)]
         /\ \A i \in ReceiptItems : item'[i] = item[i]
<1>1. /\ item'[Ask(k)] = "accepted"
      /\ \A j \in Items \ {Ask(k)} : item'[j] = item[j]
      /\ \A j \in Items : item'[j] \in recent'[j]
  BY ItemsThere, PutOne, PutSeen
<1>2. \A d \in Duties : item'[Duty(d)] = item[Duty(d)]
  BY <1>1, ItemsThere, ItemsDiffer
<1>3. \A j \in Keys : item'[Claim(j)] = item[Claim(j)]
  BY <1>1, ItemsThere, ItemsDiffer
<1>4. \A j \in Keys : item'[Ask(j)] \in {"accepted", None}
  BY <1>1, ItemsThere DEF Stored
<1>5. \A i \in ReceiptItems : item'[i] = item[i]
  BY <1>1, ItemsThere, ItemsDiffer
<1> QED
  BY <1>1, <1>2, <1>3, <1>4, <1>5 DEF Stored

LEMMA PutClaimStored ==
  ASSUME Stored, NEW k \in Keys, NEW w \in Workers, Put(Claim(k), w)
  PROVE  /\ Stored'
         /\ item'[Claim(k)] = w
         /\ \A j \in Keys \ {k} : item'[Claim(j)] = item[Claim(j)]
         /\ \A i \in ReceiptItems : item'[i] = item[i]
<1>1. /\ item'[Claim(k)] = w
      /\ \A j \in Items \ {Claim(k)} : item'[j] = item[j]
      /\ \A j \in Items : item'[j] \in recent'[j]
  BY ItemsThere, PutOne, PutSeen
<1>2. \A d \in Duties : item'[Duty(d)] = item[Duty(d)]
  BY <1>1, ItemsThere, ItemsDiffer
<1>3. \A j \in Keys \ {k} : item'[Claim(j)] = item[Claim(j)]
  BY <1>1, ItemsThere, ItemsDiffer
<1>4. \A j \in Keys : item'[Ask(j)] = item[Ask(j)]
  BY <1>1, ItemsThere, ItemsDiffer
<1>5. \A i \in ReceiptItems : item'[i] = item[i]
  BY <1>1, ItemsThere, ItemsDiffer
<1> QED
  BY <1>1, <1>2, <1>3, <1>4, <1>5 DEF Stored

LEMMA PutReceiptStored ==
  ASSUME Stored, NEW k \in Keys, NEW w \in Workers, NEW r \in Results, Put(Receipt(k, w), r)
  PROVE  /\ Stored'
         /\ item'[Receipt(k, w)] = r
         /\ \A j \in Keys : item'[Claim(j)] = item[Claim(j)]
         /\ \A i \in ReceiptItems \ {Receipt(k, w)} : item'[i] = item[i]
<1>1. /\ item'[Receipt(k, w)] = r
      /\ \A j \in Items \ {Receipt(k, w)} : item'[j] = item[j]
      /\ \A j \in Items : item'[j] \in recent'[j]
  BY ItemsThere, PutOne, PutSeen
<1>2. \A d \in Duties : item'[Duty(d)] = item[Duty(d)]
  BY <1>1, ItemsThere, ItemsDiffer
<1>3. \A j \in Keys : item'[Claim(j)] = item[Claim(j)] /\ item'[Ask(j)] = item[Ask(j)]
  BY <1>1, ItemsThere, ItemsDiffer
<1>4. \A i \in ReceiptItems \ {Receipt(k, w)} : item'[i] = item[i]
  BY <1>1, ItemsThere
<1>5. \A i \in ReceiptItems : item'[i] \in Results \cup {None}
  BY <1>1, <1>4 DEF Stored
<1> QED
  BY <1>1, <1>2, <1>3, <1>4, <1>5 DEF Stored

LEMMA ClaimAndAppendStored ==
  ASSUME Stored, NEW w \in Workers, key[w] \in Keys, NEW r \in Results, ClaimAndAppend(w, r)
  PROVE  /\ Stored'
         /\ item'[Claim(key[w])] = w
         /\ item'[Receipt(key[w], w)] = r
         /\ \A j \in Keys \ {key[w]} : item'[Claim(j)] = item[Claim(j)]
         /\ \A i \in ReceiptItems \ {Receipt(key[w], w)} : item'[i] = item[i]
<1> DEFINE k == key[w]
           both == {Claim(k), Receipt(k, w)}
           new == [i \in both |-> IF i = Claim(k) THEN w ELSE r]
<1>1. PutAll(both, new)
  BY DEF ClaimAndAppend
<1>2. Claim(k) \in Items /\ Receipt(k, w) \in Items /\ Claim(k) # Receipt(k, w)
  BY ItemsThere, ItemsDiffer
<1>3. new[Claim(k)] = w /\ new[Receipt(k, w)] = r
  BY <1>2
<1> HIDE DEF new
<1>4. /\ item'[Claim(k)] = w
      /\ item'[Receipt(k, w)] = r
      /\ \A j \in Items \ both : item'[j] = item[j]
  BY <1>1, <1>2, <1>3 DEF PutAll
<1>5. ASSUME NEW j \in Items PROVE item'[j] \in recent'[j]
  BY <1>1 DEF PutAll, Stored
<1>6. \A d \in Duties : item'[Duty(d)] = item[Duty(d)]
  BY <1>4, ItemsThere, ItemsDiffer
<1>7. \A j \in Keys : item'[Ask(j)] = item[Ask(j)]
  BY <1>4, ItemsThere, ItemsDiffer
<1>8. \A j \in Keys \ {k} : item'[Claim(j)] = item[Claim(j)]
  BY <1>4, ItemsThere, ItemsDiffer
<1>9. \A i \in ReceiptItems \ {Receipt(k, w)} : item'[i] = item[i]
  BY <1>4, ItemsThere, ItemsDiffer
<1> QED
  BY <1>4, <1>5, <1>6, <1>7, <1>8, <1>9 DEF Stored

-----------------------------------------------------------------------------
(* Types. *)

LEMMA GotoShape ==
  ASSUME TypeOK, KeyShape, NEW w \in Workers, NEW label \in Labels, Goto(w, label),
         label \in Holding => key[w] \in Keys
  PROVE  /\ pc' \in [Workers -> Labels]
         /\ key' \in [Workers -> Keys \cup {None}]
         /\ owner' \in [Workers -> Workers \cup {None}]
         /\ KeyShape'
         /\ pc'[w] = label
         /\ label # "idle" => key'[w] = key[w]
         /\ \A v \in Workers \ {w} : pc'[v] = pc[v] /\ key'[v] = key[v]
<1>1. /\ pc' \in [Workers -> Labels] /\ pc'[w] = label
      /\ \A v \in Workers \ {w} : pc'[v] = pc[v]
  BY DEF Goto, TypeOK
<1>2. /\ key' \in [Workers -> Keys \cup {None}]
      /\ label # "idle" => key'[w] = key[w]
      /\ \A v \in Workers \ {w} : key'[v] = key[v]
  BY DEF Goto, TypeOK
<1>3. owner' \in [Workers -> Workers \cup {None}]
  BY DEF Goto, TypeOK
<1>4. KeyShape'
  BY <1>1, <1>2 DEF KeyShape, Holding
<1> QED
  BY <1>1, <1>2, <1>3, <1>4

(* What an assignment's step leaves alone keeps its type.                   *)
LEMMA ElsewhereType ==
  ASSUME TypeOK, UNCHANGED Elsewhere
  PROVE  /\ backing' \in Backings
         /\ lock' \in Workers \cup {None}
         /\ view' \in [Workers -> [duties : [Duties -> People \cup {None}],
                                   asks : [Keys -> {"accepted", None}]]]
         /\ crashes' \in Nat
BY DEF TypeOK, Elsewhere

LEMMA TypeIsStored == TypeOK => Stored
BY DEF TypeOK, Stored

LEMMA HeldKey ==
  ASSUME TypeOK, KeyShape, NEW w \in Workers, pc[w] \in Holding
  PROVE  key[w] \in Keys /\ key[w][1] \in Duties /\ key[w][2] \in People
BY DEF KeyShape, Keys

LEMMA AcceptShape ==
  ASSUME TypeOK, KeyShape, NEW w \in Workers, NEW k \in Keys, Accept(w, k)
  PROVE  TypeOK' /\ KeyShape'
<1>1. Stored'
  BY TypeIsStored, PutAskStored DEF Accept
<1>2. /\ pc' \in [Workers -> Labels] /\ key' \in [Workers -> Keys \cup {None}]
      /\ KeyShape'
  BY DEF Accept, TypeOK, KeyShape, Labels, Holding
<1> QED
  BY <1>1, <1>2, ElsewhereType DEF Accept, TypeOK, Stored

(* The steps that only read.                                                *)
LEMMA LookShape ==
  ASSUME TypeOK, KeyShape, NEW w \in Workers,
         \/ FindClaim(w) \/ FindReceipt(w) \/ RaiseUnreadable(w)
         \/ LoseClaim(w) \/ RaiseNotFound(w) \/ ReadBack(w)
  PROVE  TypeOK' /\ KeyShape'
<1>1. UNCHANGED <<item, recent, executions, Elsewhere>>
  BY DEF FindClaim, FindReceipt, RaiseUnreadable, LoseClaim, RaiseNotFound, ReadBack
<1>2. /\ pc' \in [Workers -> Labels] /\ key' \in [Workers -> Keys \cup {None}]
      /\ owner' \in [Workers -> Workers \cup {None}] /\ KeyShape'
  <2>1. CASE FindClaim(w)
    BY <2>1 DEF FindClaim, TypeOK, KeyShape, Labels, Holding
  <2>2. CASE FindReceipt(w) \/ RaiseUnreadable(w)
    <3>1. PICK label \in {"idle", "append", "unreadable"} : Goto(w, label)
      BY <2>2 DEF FindReceipt, RaiseUnreadable
    <3>2. pc[w] \in Holding
      BY <2>2 DEF FindReceipt, RaiseUnreadable, Holding, Labels
    <3> QED
      BY <3>1, <3>2, HeldKey, GotoShape DEF Labels
  <2>3. CASE LoseClaim(w) \/ RaiseNotFound(w) \/ ReadBack(w)
    <3>1. PICK label \in {"idle", "must_find", "close_verified", "close_conflicted"} :
            Goto(w, label)
      BY <2>3 DEF LoseClaim, RaiseNotFound, ReadBack
    <3>2. pc[w] \in Holding
      BY <2>3 DEF LoseClaim, RaiseNotFound, ReadBack, Holding, Labels
    <3> QED
      BY <3>1, <3>2, HeldKey, GotoShape DEF Labels
  <2> QED
    BY <2>1, <2>2, <2>3
<1> QED
  BY <1>1, <1>2, ElsewhereType DEF TypeOK

(* The steps that write a claim, a receipt or the duty.                     *)
LEMMA WriteShape ==
  ASSUME TypeOK, KeyShape, NEW w \in Workers,
         \/ ClaimKey(w) \/ WriteDuty(w)
         \/ MarkExecuted(w) \/ CloseVerified(w) \/ CloseConflicted(w)
         \/ \E r \in {"open", "blocked"} :
              PutReceipt(w, r) \/ InsertReceipt(w, r) \/ OverwriteKey(w, r)
  PROVE  TypeOK' /\ KeyShape'
<1>0. Stored
  BY TypeIsStored
<1>1. pc[w] \in Holding
  BY DEF ClaimKey, WriteDuty, MarkExecuted, CloseVerified, CloseConflicted, UpdateReceipt,
         PutReceipt, InsertReceipt, OverwriteKey, Holding, Labels
<1>2. key[w] \in Keys /\ key[w][1] \in Duties /\ key[w][2] \in People
  BY <1>1, HeldKey
<1>3. UNCHANGED Elsewhere
  BY DEF ClaimKey, WriteDuty, MarkExecuted, CloseVerified, CloseConflicted, UpdateReceipt,
         PutReceipt, InsertReceipt, OverwriteKey, ClaimAndAppend
<1>4. PICK label \in Labels : Goto(w, label)
  BY DEF ClaimKey, WriteDuty, MarkExecuted, CloseVerified, CloseConflicted, UpdateReceipt,
         PutReceipt, InsertReceipt, OverwriteKey, ClaimAndAppend, Appended, Labels
<1>5. Stored'
  <2>1. CASE ClaimKey(w)
    BY <1>0, <1>2, <2>1, PutClaimStored DEF ClaimKey
  <2>2. CASE WriteDuty(w)
    BY <1>0, <1>2, <2>2, PutDutyStored DEF WriteDuty
  <2>3. CASE MarkExecuted(w) \/ CloseVerified(w) \/ CloseConflicted(w)
    <3>1. PICK r \in Results : Put(Receipt(key[w], w), r)
      BY <2>3 DEF MarkExecuted, CloseVerified, CloseConflicted, UpdateReceipt, Results
    <3> QED
      BY <1>0, <1>2, <3>1, PutReceiptStored
  <2>4. ASSUME NEW r \in {"open", "blocked"}, PutReceipt(w, r)
        PROVE  Stored'
    BY <1>0, <1>2, <2>4, PutReceiptStored DEF PutReceipt, Results
  <2>5. ASSUME NEW r \in {"open", "blocked"}, InsertReceipt(w, r) \/ OverwriteKey(w, r)
        PROVE  Stored'
    BY <1>0, <1>2, <2>5, ClaimAndAppendStored DEF InsertReceipt, OverwriteKey, Results
  <2> QED
    BY <2>1, <2>2, <2>3, <2>4, <2>5
<1>6. executions' \in [Keys -> Nat]
  <2>1. CASE WriteDuty(w)
    BY <1>2, <2>1 DEF WriteDuty, TypeOK
  <2>2. CASE ~WriteDuty(w)
    BY <2>2 DEF ClaimKey, MarkExecuted, CloseVerified, CloseConflicted, UpdateReceipt,
                PutReceipt, InsertReceipt, OverwriteKey, ClaimAndAppend, TypeOK
  <2> QED
    BY <2>1, <2>2
<1>7. /\ pc' \in [Workers -> Labels] /\ key' \in [Workers -> Keys \cup {None}]
      /\ owner' \in [Workers -> Workers \cup {None}] /\ KeyShape'
  BY <1>2, <1>4, GotoShape
<1> QED
  BY <1>3, <1>5, <1>6, <1>7, ElsewhereType DEF TypeOK, Stored

(* Loading the roster, and dying.                                           *)
LEMMA ReadShape ==
  ASSUME TypeOK, KeyShape, NEW w \in Workers, ReadStep(w) \/ Crash(w)
  PROVE  TypeOK' /\ KeyShape'
<1>1. UNCHANGED <<backing, item, recent, executions>>
  BY DEF ReadStep, ReadDuties, ReadAsks, EndRead, Crash, StorePart
<1>2. /\ lock' \in Workers \cup {None}
      /\ crashes' \in Nat
  BY DEF ReadStep, ReadDuties, ReadAsks, EndRead, Crash, StorePart, TypeOK
<1>3. PICK label \in Labels \ Holding : Goto(w, label)
  BY DEF ReadStep, ReadDuties, ReadAsks, EndRead, Crash, Labels, Holding
<1>4. /\ pc' \in [Workers -> Labels] /\ key' \in [Workers -> Keys \cup {None}]
      /\ owner' \in [Workers -> Workers \cup {None}] /\ KeyShape'
  BY <1>3, GotoShape
<1>5. view' \in [Workers -> [duties : [Duties -> People \cup {None}],
                             asks : [Keys -> {"accepted", None}]]]
  <2>0. /\ view \in [Workers -> [duties : [Duties -> People \cup {None}],
                                asks : [Keys -> {"accepted", None}]]]
        /\ view[w] \in [duties : [Duties -> People \cup {None}],
                        asks : [Keys -> {"accepted", None}]]
    BY DEF TypeOK
  <2>1. CASE ReadDuties(w)
    <3>1. PICK duties \in [Duties -> People \cup {None}] :
            view' = [view EXCEPT ![w].duties = duties]
      BY <2>1 DEF ReadDuties
    <3>2. [view[w] EXCEPT !.duties = duties] \in
            [duties : [Duties -> People \cup {None}], asks : [Keys -> {"accepted", None}]]
      BY <2>0
    <3> QED
      BY <2>0, <3>1, <3>2
  <2>2. CASE ReadAsks(w)
    <3>1. PICK asks \in [Keys -> {"accepted", None}] :
            view' = [view EXCEPT ![w].asks = asks]
      BY <2>2 DEF ReadAsks
    <3>2. [view[w] EXCEPT !.asks = asks] \in
            [duties : [Duties -> People \cup {None}], asks : [Keys -> {"accepted", None}]]
      BY <2>0
    <3> QED
      BY <2>0, <3>1, <3>2
  <2>3. CASE EndRead(w) \/ Crash(w)
    BY <2>3 DEF EndRead, Crash, NoView, TypeOK
  <2> QED
    BY <2>1, <2>2, <2>3 DEF ReadStep
<1> QED
  BY <1>1, <1>2, <1>4, <1>5 DEF TypeOK

LEMMA StepShape ==
  ASSUME TypeOK, KeyShape, [Next]_vars
  PROVE  TypeOK' /\ KeyShape'
<1>1. CASE UNCHANGED vars
  BY <1>1 DEF vars, TypeOK, KeyShape
<1>2. ASSUME NEW w \in Workers, BeginStep(w) \/ ActStep(w) \/ ReadStep(w) \/ Crash(w)
      PROVE  TypeOK' /\ KeyShape'
  BY <1>2, AcceptShape, LookShape, WriteShape, ReadShape DEF BeginStep, ActStep
<1> QED
  BY <1>1, <1>2 DEF Next

LEMMA InitShape == Init => TypeOK /\ KeyShape
<1> SUFFICES ASSUME Init PROVE TypeOK /\ KeyShape
  OBVIOUS
<1>1. Stored
  BY ItemsThere DEF Init, Stored
<1>2. view \in [Workers -> [duties : [Duties -> People \cup {None}],
                            asks : [Keys -> {"accepted", None}]]]
  BY DEF Init, NoView
<1>3. pc \in [Workers -> Labels] /\ KeyShape
  BY DEF Init, Labels, KeyShape, Holding
<1> QED
  BY <1>1, <1>2, <1>3 DEF Init, TypeOK, Stored

(* Every item, claim, receipt, lock and reader of the three stores keeps    *)
(* its type, for any number of duties, people, workers and crashes.         *)
THEOREM StoreTypes == Spec => []TypeOK
<1>1. Init => TypeOK /\ KeyShape
  BY InitShape
<1>2. TypeOK /\ KeyShape /\ [Next]_vars => (TypeOK /\ KeyShape)'
  BY StepShape
<1> QED
  BY <1>1, <1>2, PTL DEF Spec

-----------------------------------------------------------------------------
(* One execution per key, and one book of receipts behind the claims. *)

(* Another worker's knowledge stands as long as its items do.               *)
LEMMA KnowsStill ==
  ASSUME NEW v \in Workers, Knows(v), pc'[v] = pc[v], key'[v] = key[v],
         pc[v] \in {"put_receipt", "act", "mark", "reread", "close_verified",
                    "close_conflicted"} =>
           /\ item'[Claim(key[v])] = item[Claim(key[v])]
           /\ item'[Receipt(key[v], v)] = item[Receipt(key[v], v)]
           /\ executions'[key[v]] = executions[key[v]]
  PROVE  Knows(v)'
BY DEF Knows, Stage

(* A step that changes no claim, no receipt and no count.                   *)
LEMMA BookedStill ==
  ASSUME Inv, backing # "memory", NEW w \in Workers,
         \A k \in Keys : item'[Claim(k)] = item[Claim(k)],
         \A i \in ReceiptItems : item'[i] = item[i],
         executions' = executions,
         \A v \in Workers \ {w} : pc'[v] = pc[v] /\ key'[v] = key[v],
         Knows(w)'
  PROVE  Booked'
<1>1. ASSUME NEW v \in Workers \ {w} PROVE Knows(v)'
  <2>1. Knows(v)
    BY DEF Inv, Booked
  <2>2. CASE pc[v] \in Holding
    <3>1. key[v] \in Keys
      BY <2>2, HeldKey DEF Inv
    <3> QED
      BY <2>1, <3>1, KnowsStill, ItemsThere
  <2>3. CASE pc[v] \notin Holding
    BY <2>1, <2>3, KnowsStill DEF Holding, Labels
  <2> QED
    BY <2>2, <2>3
<1>2. \A k \in Keys, v \in Workers : item'[Receipt(k, v)] # None => item'[Claim(k)] = v
  BY ItemsThere DEF Inv, Booked
<1> QED
  BY <1>1, <1>2 DEF Inv, Booked

(* A step of the one worker that holds the claim: it changes its own        *)
(* receipt and the count of its own key.                                    *)
LEMMA BookedByHolder ==
  ASSUME Inv, backing # "memory", NEW w \in Workers, NEW k \in Keys,
         item'[Claim(k)] = w,
         item[Claim(k)] \in {w, None},
         \A j \in Keys \ {k} : item'[Claim(j)] = item[Claim(j)],
         \A i \in ReceiptItems \ {Receipt(k, w)} : item'[i] = item[i],
         executions'[k] \in {0, 1},
         \A j \in Keys \ {k} : executions'[j] = executions[j],
         \A v \in Workers \ {w} : pc'[v] = pc[v] /\ key'[v] = key[v],
         Knows(w)'
  PROVE  Booked'
<1>1. ASSUME NEW v \in Workers \ {w} PROVE Knows(v)'
  <2>1. Knows(v)
    BY DEF Inv, Booked
  <2>2. CASE pc[v] \in {"put_receipt", "act", "mark", "reread", "close_verified",
                        "close_conflicted"}
    <3>1. key[v] \in Keys
      BY <2>2, HeldKey DEF Inv, Holding, Labels
    <3>2. item[Claim(key[v])] = v
      BY <2>1, <2>2 DEF Knows, Stage
    <3>3. v # None
      BY StoreAssumption
    <3>4. key[v] # k
      BY <3>2, <3>3
    <3>5. Receipt(key[v], v) \in ReceiptItems \ {Receipt(k, w)}
      BY <3>1, <3>4, ItemsThere, ItemsDiffer
    <3> QED
      BY <2>1, <3>1, <3>4, <3>5, KnowsStill
  <2>3. CASE pc[v] \notin {"put_receipt", "act", "mark", "reread", "close_verified",
                           "close_conflicted"}
    BY <2>1, <2>3, KnowsStill
  <2> QED
    BY <2>2, <2>3
<1>2. ASSUME NEW j \in Keys, NEW v \in Workers, item'[Receipt(j, v)] # None
      PROVE  item'[Claim(j)] = v
  <2>1. CASE j = k /\ v = w
    BY <2>1
  <2>2. CASE j # k \/ v # w
    <3>1. item'[Receipt(j, v)] = item[Receipt(j, v)]
      BY <2>2, ItemsThere, ItemsDiffer
    <3>2. item[Claim(j)] = v
      BY <1>2, <3>1 DEF Inv, Booked
    <3>3. j # k
      BY <2>2, <3>2, StoreAssumption
    <3> QED
      BY <3>2, <3>3
  <2> QED
    BY <2>1, <2>2
<1>3. w # None
  BY StoreAssumption
<1>4. \A j \in Keys : executions'[j] \in {0, 1}
  BY DEF Inv, Booked
<1>5. \A j \in Keys : item'[Claim(j)] = None => executions'[j] = 0
  BY <1>3 DEF Inv, Booked
<1> QED
  BY <1>1, <1>2, <1>4, <1>5 DEF Booked

LEMMA BookedAccept ==
  ASSUME Inv, backing # "memory", NEW w \in Workers, NEW k \in Keys, Accept(w, k)
  PROVE  Booked'
<1>1. /\ \A j \in Keys : item'[Claim(j)] = item[Claim(j)]
      /\ \A i \in ReceiptItems : item'[i] = item[i]
  BY TypeIsStored, PutAskStored DEF Inv, Accept
<1>2. pc'[w] = "find" /\ \A v \in Workers \ {w} : pc'[v] = pc[v] /\ key'[v] = key[v]
  BY DEF Accept, Inv, TypeOK
<1>3. Knows(w)'
  BY <1>2 DEF Knows
<1> QED
  BY <1>1, <1>2, <1>3, BookedStill DEF Accept

LEMMA BookedLook ==
  ASSUME Inv, backing # "memory", NEW w \in Workers,
         \/ FindClaim(w) \/ FindReceipt(w) \/ RaiseUnreadable(w)
         \/ LoseClaim(w) \/ RaiseNotFound(w) \/ ReadBack(w)
         \/ ReadStep(w) \/ Crash(w)
  PROVE  Booked'
<1>1. UNCHANGED <<item, executions>>
  BY DEF FindClaim, FindReceipt, RaiseUnreadable, LoseClaim, RaiseNotFound, ReadBack,
         ReadStep, ReadDuties, ReadAsks, EndRead, Crash, StorePart
<1>2. \A v \in Workers \ {w} : pc'[v] = pc[v] /\ key'[v] = key[v]
  BY DEF Inv, TypeOK, Goto, FindClaim, FindReceipt, RaiseUnreadable, LoseClaim,
         RaiseNotFound, ReadBack, ReadStep, ReadDuties, ReadAsks, EndRead, Crash
<1>3. Knows(w)'
  <2>1. CASE ReadBack(w)
    <3>1. PICK label \in {"close_verified", "close_conflicted"} : Goto(w, label)
      BY <2>1 DEF ReadBack
    <3>2. pc'[w] = label /\ key'[w] = key[w]
      BY <3>1 DEF Goto, Inv, TypeOK
    <3>3. Stage(w, "executed", 1)
      BY <2>1 DEF Inv, Booked, Knows, ReadBack
    <3> QED
      BY <1>1, <3>2, <3>3 DEF Knows, Stage
  <2>2. CASE ~ReadBack(w)
    <3>1. pc'[w] \notin {"put_receipt", "act", "mark", "reread", "close_verified",
                         "close_conflicted"}
      BY <2>2 DEF Inv, TypeOK, Goto, FindClaim, FindReceipt, RaiseUnreadable, LoseClaim,
                  RaiseNotFound, ReadStep, ReadDuties, ReadAsks, EndRead, Crash
    <3> QED
      BY <3>1 DEF Knows
  <2> QED
    BY <2>1, <2>2
<1> QED
  BY <1>1, <1>2, <1>3, BookedStill

LEMMA GotoFacts ==
  ASSUME Inv, NEW w \in Workers, NEW label \in Labels, Goto(w, label)
  PROVE  /\ pc'[w] = label
         /\ label # "idle" => key'[w] = key[w]
         /\ \A v \in Workers \ {w} : pc'[v] = pc[v] /\ key'[v] = key[v]
BY DEF Goto, Inv, TypeOK

(* The claim is won: by DynamoDB's conditional put, or with the receipt     *)
(* behind SQLite's unique index.                                            *)
LEMMA BookedClaim ==
  ASSUME Inv, backing # "memory", NEW w \in Workers,
         ClaimKey(w) \/ \E r \in {"open", "blocked"} : InsertReceipt(w, r)
  PROVE  Booked'
<1>1. key[w] \in Keys
  BY HeldKey DEF Inv, ClaimKey, InsertReceipt, Holding, Labels
<1>2. /\ item[Claim(key[w])] = None
      /\ executions' = executions
      /\ executions[key[w]] = 0
      /\ item[Receipt(key[w], w)] = None
  BY <1>1, StoreAssumption DEF Inv, Booked, ClaimKey, InsertReceipt, ClaimAndAppend
<1>3. CASE ClaimKey(w)
  <2>1. /\ item'[Claim(key[w])] = w
        /\ \A j \in Keys \ {key[w]} : item'[Claim(j)] = item[Claim(j)]
        /\ \A i \in ReceiptItems : item'[i] = item[i]
    BY <1>1, <1>3, TypeIsStored, PutClaimStored DEF Inv, ClaimKey
  <2>2. /\ pc'[w] = "put_receipt" /\ key'[w] = key[w]
        /\ \A v \in Workers \ {w} : pc'[v] = pc[v] /\ key'[v] = key[v]
    BY <1>3, GotoFacts DEF ClaimKey, Labels
  <2>3. Knows(w)'
    BY <1>1, <1>2, <2>1, <2>2, ItemsThere DEF Knows, Stage
  <2> QED
    BY <1>1, <1>2, <2>1, <2>2, <2>3, BookedByHolder
<1>4. ASSUME NEW r \in {"open", "blocked"}, InsertReceipt(w, r)
      PROVE  Booked'
  <2>1. /\ item'[Claim(key[w])] = w
        /\ item'[Receipt(key[w], w)] = r
        /\ \A j \in Keys \ {key[w]} : item'[Claim(j)] = item[Claim(j)]
        /\ \A i \in ReceiptItems \ {Receipt(key[w], w)} : item'[i] = item[i]
    BY <1>1, <1>4, TypeIsStored, ClaimAndAppendStored DEF Inv, InsertReceipt, Results
  <2>2. /\ pc'[w] = (IF r = "open" THEN "act" ELSE "idle")
        /\ r = "open" => key'[w] = key[w]
        /\ \A v \in Workers \ {w} : pc'[v] = pc[v] /\ key'[v] = key[v]
    BY <1>4, GotoFacts DEF InsertReceipt, ClaimAndAppend, Appended, Labels
  <2>3. Knows(w)'
    BY <1>2, <2>1, <2>2 DEF Knows, Stage
  <2> QED
    BY <1>1, <1>2, <2>1, <2>2, <2>3, BookedByHolder
<1> QED
  BY <1>3, <1>4

(* Whoever has the claim writes its receipt, acts once and closes.          *)
LEMMA BookedWork ==
  ASSUME Inv, backing # "memory", NEW w \in Workers,
         \/ WriteDuty(w) \/ MarkExecuted(w) \/ CloseVerified(w) \/ CloseConflicted(w)
         \/ \E r \in {"open", "blocked"} : PutReceipt(w, r)
  PROVE  Booked'
<1>1. key[w] \in Keys /\ key[w][1] \in Duties /\ key[w][2] \in People
  BY HeldKey DEF Inv, WriteDuty, MarkExecuted, CloseVerified, CloseConflicted,
                 UpdateReceipt, PutReceipt, Holding, Labels
<1>2. item[Claim(key[w])] = w /\ executions[key[w]] \in {0, 1} /\ w # None
  BY <1>1, StoreAssumption
     DEF Inv, Booked, Knows, Stage, WriteDuty, MarkExecuted, CloseVerified,
         CloseConflicted, UpdateReceipt, PutReceipt
<1>3. CASE WriteDuty(w)
  <2>1. /\ \A j \in Keys : item'[Claim(j)] = item[Claim(j)]
        /\ \A i \in ReceiptItems : item'[i] = item[i]
    BY <1>1, <1>3, ItemsThere, ItemsDiffer, PutOne DEF WriteDuty
  <2>2. /\ pc'[w] = "mark" /\ key'[w] = key[w]
        /\ \A v \in Workers \ {w} : pc'[v] = pc[v] /\ key'[v] = key[v]
    BY <1>3, GotoFacts DEF WriteDuty, Labels
  <2>3. Stage(w, "open", 0)
    BY <1>3 DEF Inv, Booked, Knows, WriteDuty
  <2>4. /\ executions'[key[w]] = 1
        /\ \A j \in Keys \ {key[w]} : executions'[j] = executions[j]
    BY <1>1, <1>3, <2>3 DEF WriteDuty, Stage, Inv, TypeOK
  <2>5. Knows(w)'
    BY <1>1, <2>1, <2>2, <2>3, <2>4, ItemsThere DEF Knows, Stage
  <2> QED
    BY <1>1, <1>2, <2>1, <2>2, <2>4, <2>5, BookedByHolder
<1>4. ASSUME NEW r \in Results, NEW label \in {"idle", "act", "reread"},
             Put(Receipt(key[w], w), r), Goto(w, label), executions' = executions,
             label = "act" => r = "open" /\ executions[key[w]] = 0,
             label = "reread" => r = "executed" /\ executions[key[w]] = 1
      PROVE  Booked'
  <2>1. /\ item'[Receipt(key[w], w)] = r
        /\ \A j \in Keys : item'[Claim(j)] = item[Claim(j)]
        /\ \A i \in ReceiptItems \ {Receipt(key[w], w)} : item'[i] = item[i]
    BY <1>1, <1>4, TypeIsStored, PutReceiptStored DEF Inv
  <2>2. /\ pc'[w] = label
        /\ label # "idle" => key'[w] = key[w]
        /\ \A v \in Workers \ {w} : pc'[v] = pc[v] /\ key'[v] = key[v]
    BY <1>4, GotoFacts DEF Labels
  <2>3. Knows(w)'
    BY <1>1, <1>2, <1>4, <2>1, <2>2 DEF Knows, Stage
  <2> QED
    BY <1>1, <1>2, <1>4, <2>1, <2>2, <2>3, BookedByHolder
<1>5. ASSUME NEW r \in {"open", "blocked"}, PutReceipt(w, r)
      PROVE  Booked'
  <2>1. executions[key[w]] = 0
    BY <1>5 DEF Inv, Booked, Knows, Stage, PutReceipt
  <2>2. Goto(w, IF r = "open" THEN "act" ELSE "idle")
    BY <1>5 DEF PutReceipt, Appended
  <2> QED
    BY <1>4, <1>5, <2>1, <2>2 DEF PutReceipt, Results
<1>6. CASE MarkExecuted(w)
  <2>1. executions[key[w]] = 1
    BY <1>6 DEF Inv, Booked, Knows, Stage, MarkExecuted, UpdateReceipt
  <2> QED
    BY <1>4, <1>6, <2>1 DEF MarkExecuted, UpdateReceipt, Results
<1>7. CASE CloseVerified(w) \/ CloseConflicted(w)
  BY <1>4, <1>7 DEF CloseVerified, CloseConflicted, UpdateReceipt, Results
<1> QED
  BY <1>3, <1>5, <1>6, <1>7

LEMMA StepInv ==
  ASSUME Inv, [Next]_vars
  PROVE  Inv'
<1>1. TypeOK' /\ KeyShape'
  BY StepShape DEF Inv
<1>2. CASE UNCHANGED vars
  BY <1>1, <1>2 DEF Inv, vars, Booked, Knows, Stage
<1>3. ASSUME NEW w \in Workers, BeginStep(w) \/ ActStep(w) \/ ReadStep(w) \/ Crash(w),
             backing' # "memory"
      PROVE  Booked'
  <2>1. backing' = backing
    BY <1>3 DEF BeginStep, ActStep, ReadStep, Crash, Elsewhere, StorePart, Accept, FindClaim,
                FindReceipt, RaiseUnreadable, ClaimKey, LoseClaim, PutReceipt, InsertReceipt,
                OverwriteKey, ClaimAndAppend, WriteDuty, MarkExecuted, CloseVerified,
                CloseConflicted, UpdateReceipt, ReadBack, RaiseNotFound, ReadDuties,
                ReadAsks, EndRead
  <2>2. ASSUME NEW r \in {"open", "blocked"} PROVE ~OverwriteKey(w, r)
    BY <1>3, <2>1 DEF OverwriteKey
  <2> QED
    BY <1>3, <2>1, <2>2, BookedAccept, BookedLook, BookedClaim, BookedWork
       DEF BeginStep, ActStep
<1> QED
  BY <1>1, <1>2, <1>3 DEF Inv, Next

LEMMA InitInv == Init => Inv
<1> SUFFICES ASSUME Init PROVE Booked
  BY InitShape DEF Inv
<1>1. \A k \in Keys, w \in Workers : item[Receipt(k, w)] = None
  BY ItemsThere DEF Init
<1>2. \A w \in Workers : Knows(w)
  BY DEF Init, Knows
<1> QED
  BY <1>1, <1>2 DEF Init, Booked

THEOREM StoreInvariant == Spec => []Inv
<1>1. Init => Inv
  BY InitInv
<1>2. Inv /\ [Next]_vars => Inv'
  BY StepInv
<1> QED
  BY <1>1, <1>2, PTL DEF Spec

(* In SQLite and DynamoDB an idempotency key is executed at most once, by   *)
(* any number of workers that retry, race and die, and however stale the    *)
(* reads in front of the claim are (append_action, Ledger.begin).           *)
THEOREM KeyExecutedOnce == Spec => []ExecutedOnce
<1>1. Inv => ExecutedOnce
  BY DEF Inv, Booked, ExecutedOnce
<1> QED
  BY <1>1, StoreInvariant, PTL

-----------------------------------------------------------------------------
(* The stores implement the book. *)

BookReceipts == [k \in Keys |-> BookedAs(k)]
BookExecutions == [k \in Keys |-> IF backing = "memory" THEN 0 ELSE executions[k]]

(* A key whose claim, receipts and count a step leaves alone is booked as   *)
(* before.                                                                  *)
LEMMA BookKept ==
  ASSUME Inv, NEW k \in Keys, backing' = backing,
         item'[Claim(k)] = item[Claim(k)],
         \A v \in Workers : item'[Receipt(k, v)] = item[Receipt(k, v)]
  PROVE  BookedAs(k)' = BookedAs(k)
<1>1. item[Claim(k)] \in Workers \cup {None}
  BY DEF Inv, TypeOK
<1> QED
  BY <1>1 DEF BookedAs

LEMMA BookStutter ==
  ASSUME Inv, backing' = backing, executions' = executions,
         \A k \in Keys : item'[Claim(k)] = item[Claim(k)],
         \A i \in ReceiptItems : item'[i] = item[i]
  PROVE  UNCHANGED <<BookReceipts, BookExecutions>>
<1>1. \A k \in Keys : BookedAs(k)' = BookedAs(k)
  BY BookKept, ItemsThere
<1> QED
  BY <1>1 DEF BookReceipts, BookExecutions

(* A step that writes the receipt of a key in the holder's name.            *)
LEMMA BookWritten ==
  ASSUME Inv, backing # "memory", backing' = backing, NEW w \in Workers, NEW k \in Keys,
         NEW r \in Results,
         item'[Claim(k)] = w,
         item'[Receipt(k, w)] = r,
         \A j \in Keys \ {k} : item'[Claim(j)] = item[Claim(j)],
         \A i \in ReceiptItems \ {Receipt(k, w)} : item'[i] = item[i]
  PROVE  BookReceipts' = [BookReceipts EXCEPT ![k] = r]
<1>1. BookedAs(k)' = r
  BY StoreAssumption DEF BookedAs
<1>2. ASSUME NEW j \in Keys \ {k} PROVE BookedAs(j)' = BookedAs(j)
  <2>1. \A v \in Workers : item'[Receipt(j, v)] = item[Receipt(j, v)]
    BY ItemsThere, ItemsDiffer
  <2> QED
    BY <2>1, BookKept
<1> QED
  BY <1>1, <1>2 DEF BookReceipts

LEMMA BackingKept ==
  ASSUME NEW w \in Workers, BeginStep(w) \/ ActStep(w) \/ ReadStep(w) \/ Crash(w)
  PROVE  backing' = backing
BY DEF BeginStep, ActStep, ReadStep, Crash, Elsewhere, StorePart, Accept, FindClaim,
       FindReceipt, RaiseUnreadable, ClaimKey, LoseClaim, PutReceipt, InsertReceipt,
       OverwriteKey, ClaimAndAppend, WriteDuty, MarkExecuted, CloseVerified,
       CloseConflicted, UpdateReceipt, ReadBack, RaiseNotFound, ReadDuties, ReadAsks, EndRead

(* Nothing of a store that refuses no key is in the book.                   *)
LEMMA BookInMemory ==
  ASSUME backing = "memory", backing' = backing
  PROVE  UNCHANGED <<BookReceipts, BookExecutions>>
BY DEF BookReceipts, BookExecutions, BookedAs

LEMMA BookOpened ==
  ASSUME Inv, backing # "memory", NEW w \in Workers, NEW r \in {"open", "blocked"},
         PutReceipt(w, r) \/ InsertReceipt(w, r)
  PROVE  \E k \in Keys : Book!Open(k, r)
<1>1. key[w] \in Keys
  BY HeldKey DEF Inv, PutReceipt, InsertReceipt, Holding, Labels
<1>2. /\ r \in Results
      /\ backing' = backing /\ executions' = executions
  BY DEF Results, PutReceipt, InsertReceipt, ClaimAndAppend, Elsewhere
<1>3. BookedAs(key[w]) = "absent"
  BY DEF Inv, Booked, Knows, Stage, PutReceipt, InsertReceipt, BookedAs
<1>4. /\ item'[Claim(key[w])] = w
      /\ item'[Receipt(key[w], w)] = r
      /\ \A j \in Keys \ {key[w]} : item'[Claim(j)] = item[Claim(j)]
      /\ \A i \in ReceiptItems \ {Receipt(key[w], w)} : item'[i] = item[i]
  <2>1. CASE PutReceipt(w, r)
    <3>1. item[Claim(key[w])] = w
      BY <2>1 DEF Inv, Booked, Knows, Stage, PutReceipt
    <3> QED
      BY <1>1, <1>2, <2>1, <3>1, TypeIsStored, PutReceiptStored DEF Inv, PutReceipt
  <2>2. CASE InsertReceipt(w, r)
    BY <1>1, <1>2, <2>2, TypeIsStored, ClaimAndAppendStored DEF Inv, InsertReceipt
  <2> QED
    BY <2>1, <2>2
<1>5. BookReceipts' = [BookReceipts EXCEPT ![key[w]] = r]
  BY <1>1, <1>2, <1>4, BookWritten
<1>6. BookExecutions' = BookExecutions /\ BookReceipts[key[w]] = "absent"
  BY <1>1, <1>2, <1>3 DEF BookExecutions, BookReceipts
<1> QED
  BY <1>1, <1>5, <1>6 DEF Book!Open, BookReceipts, BookExecutions

LEMMA BookExecuted ==
  ASSUME Inv, backing # "memory", NEW w \in Workers, WriteDuty(w)
  PROVE  \E k \in Keys : Book!Execute(k)
<1>1. key[w] \in Keys /\ key[w][1] \in Duties /\ key[w][2] \in People
  BY HeldKey DEF Inv, WriteDuty, Holding, Labels
<1>2. backing' = backing
  BY DEF WriteDuty, Elsewhere
<1>3. Stage(w, "open", 0)
  BY DEF Inv, Booked, Knows, WriteDuty
<1>4. /\ \A j \in Keys : item'[Claim(j)] = item[Claim(j)]
      /\ \A i \in ReceiptItems : item'[i] = item[i]
  BY <1>1, ItemsThere, ItemsDiffer, PutOne DEF WriteDuty
<1>5. BookReceipts' = BookReceipts
  <2>1. \A k \in Keys : BookedAs(k)' = BookedAs(k)
    BY <1>2, <1>4, BookKept, ItemsThere
  <2> QED
    BY <2>1 DEF BookReceipts
<1>6. BookReceipts[key[w]] = "open"
  BY <1>1, <1>3, StoreAssumption DEF BookReceipts, BookedAs, Stage, Results
<1>7. /\ BookExecutions[key[w]] = 0
      /\ BookExecutions' = [BookExecutions EXCEPT ![key[w]] = 1]
  BY <1>1, <1>2, <1>3 DEF BookExecutions, Stage, WriteDuty, Inv, TypeOK
<1> QED
  BY <1>1, <1>5, <1>6, <1>7 DEF Book!Execute, BookReceipts, BookExecutions

LEMMA BookAdvanced ==
  ASSUME Inv, backing # "memory", NEW w \in Workers,
         MarkExecuted(w) \/ CloseVerified(w) \/ CloseConflicted(w)
  PROVE  \E k \in Keys, r \in {"executed", "verified", "conflicted"} : Book!Advance(k, r)
<1>1. key[w] \in Keys
  BY HeldKey DEF Inv, MarkExecuted, CloseVerified, CloseConflicted, UpdateReceipt, Holding,
                 Labels
<1>2. backing' = backing /\ executions' = executions
  BY DEF MarkExecuted, CloseVerified, CloseConflicted, UpdateReceipt, Elsewhere
<1>3. PICK r \in {"executed", "verified", "conflicted"}, was \in {"open", "executed"} :
        /\ Put(Receipt(key[w], w), r)
        /\ Stage(w, was, 1)
        /\ <<was, r>> \in {<<"open", "executed">>, <<"executed", "verified">>,
                           <<"executed", "conflicted">>}
  BY DEF Inv, Booked, Knows, MarkExecuted, CloseVerified, CloseConflicted, UpdateReceipt
<1>4. r \in Results /\ was # None
  BY StoreAssumption DEF Results
<1>5. BookReceipts' = [BookReceipts EXCEPT ![key[w]] = r]
  <2>1. /\ item'[Receipt(key[w], w)] = r
        /\ \A j \in Keys : item'[Claim(j)] = item[Claim(j)]
        /\ \A i \in ReceiptItems \ {Receipt(key[w], w)} : item'[i] = item[i]
    BY <1>1, <1>3, <1>4, TypeIsStored, PutReceiptStored DEF Inv
  <2> QED
    BY <1>1, <1>2, <1>3, <1>4, <2>1, BookWritten DEF Stage
<1>6. BookReceipts[key[w]] = was
  BY <1>1, <1>3, <1>4, StoreAssumption DEF BookReceipts, BookedAs, Stage
<1>7. BookExecutions' = BookExecutions /\ BookExecutions[key[w]] = 1
  BY <1>1, <1>2, <1>3 DEF BookExecutions, Stage
<1> QED
  BY <1>1, <1>3, <1>5, <1>6, <1>7 DEF Book!Advance, BookReceipts, BookExecutions

LEMMA BookUntouched ==
  ASSUME Inv, backing # "memory", NEW w \in Workers,
         \/ \E k \in Keys : Accept(w, k)
         \/ FindClaim(w) \/ FindReceipt(w) \/ RaiseUnreadable(w)
         \/ LoseClaim(w) \/ RaiseNotFound(w) \/ ReadBack(w)
         \/ ReadStep(w) \/ Crash(w)
  PROVE  UNCHANGED <<BookReceipts, BookExecutions>>
<1>1. backing' = backing /\ executions' = executions
  BY DEF Accept, FindClaim, FindReceipt, RaiseUnreadable, LoseClaim, RaiseNotFound, ReadBack,
         ReadStep, ReadDuties, ReadAsks, EndRead, Crash, StorePart, Elsewhere
<1>2. CASE \E k \in Keys : Accept(w, k)
  <2>1. /\ \A j \in Keys : item'[Claim(j)] = item[Claim(j)]
        /\ \A i \in ReceiptItems : item'[i] = item[i]
    BY <1>2, TypeIsStored, PutAskStored DEF Inv, Accept
  <2> QED
    BY <1>1, <2>1, BookStutter
<1>3. CASE ~\E k \in Keys : Accept(w, k)
  <2>1. item' = item
    BY <1>3 DEF FindClaim, FindReceipt, RaiseUnreadable, LoseClaim, RaiseNotFound, ReadBack,
                ReadStep, ReadDuties, ReadAsks, EndRead, Crash, StorePart
  <2> QED
    BY <1>1, <2>1, BookStutter
<1> QED
  BY <1>2, <1>3

(* A claim without its receipt is not in the book yet.                      *)
LEMMA BookClaimed ==
  ASSUME Inv, backing # "memory", NEW w \in Workers, ClaimKey(w)
  PROVE  UNCHANGED <<BookReceipts, BookExecutions>>
<1>1. PICK k \in Keys : k = key[w]
  BY HeldKey DEF Inv, ClaimKey, Holding, Labels
<1>2. backing' = backing /\ executions' = executions
  BY DEF ClaimKey, Elsewhere
<1>3. /\ item'[Claim(k)] = w
      /\ \A j \in Keys \ {k} : item'[Claim(j)] = item[Claim(j)]
      /\ \A i \in ReceiptItems : item'[i] = item[i]
  BY <1>1, TypeIsStored, PutClaimStored DEF Inv, ClaimKey
<1>4. item[Claim(k)] = None /\ item[Receipt(k, w)] = None
  BY <1>1, StoreAssumption DEF Inv, Booked, ClaimKey
<1>5. item'[Receipt(k, w)] = None
  BY <1>3, <1>4, ItemsThere
<1>6. BookedAs(k)' = "absent" /\ BookedAs(k) = "absent"
  BY <1>3, <1>4, <1>5 DEF BookedAs
<1>7. \A j \in Keys \ {k} : BookedAs(j)' = BookedAs(j)
  BY <1>2, <1>3, BookKept, ItemsThere
<1>8. \A j \in Keys : BookedAs(j)' = BookedAs(j)
  BY <1>6, <1>7
<1> QED
  BY <1>2, <1>8 DEF BookReceipts, BookExecutions

LEMMA BookStep ==
  ASSUME Inv, [Next]_vars
  PROVE  [Book!Next]_<<BookReceipts, BookExecutions>>
<1>1. CASE UNCHANGED vars
  BY <1>1 DEF vars, BookReceipts, BookExecutions, BookedAs
<1>2. ASSUME NEW w \in Workers, BeginStep(w) \/ ActStep(w) \/ ReadStep(w) \/ Crash(w)
      PROVE  Book!Next \/ UNCHANGED <<BookReceipts, BookExecutions>>
  <2>1. CASE backing = "memory"
    BY <1>2, <2>1, BackingKept, BookInMemory
  <2>2. CASE backing # "memory"
    <3>1. ASSUME NEW r \in {"open", "blocked"}, PutReceipt(w, r) \/ InsertReceipt(w, r)
          PROVE  Book!Next
      BY <2>2, <3>1, BookOpened DEF Book!Next
    <3>2. CASE WriteDuty(w)
      BY <2>2, <3>2, BookExecuted DEF Book!Next
    <3>3. CASE MarkExecuted(w) \/ CloseVerified(w) \/ CloseConflicted(w)
      BY <2>2, <3>3, BookAdvanced DEF Book!Next
    <3>4. CASE ClaimKey(w)
      BY <2>2, <3>4, BookClaimed
    <3>5. ASSUME NEW r \in {"open", "blocked"} PROVE ~OverwriteKey(w, r)
      BY <2>2 DEF OverwriteKey
    <3> QED
      BY <1>2, <2>2, <3>1, <3>2, <3>3, <3>4, <3>5, BookUntouched DEF BeginStep, ActStep
  <2> QED
    BY <2>1, <2>2
<1> QED
  BY <1>1, <1>2 DEF Next

LEMMA BookInit == Init => Book!Init
BY ItemsThere DEF Init, Book!Init, BookedAs

(* Every call of a store is a step of the one book on which CoverageService *)
(* stands, or leaves it alone: a receipt per key, opened before the action, *)
(* one execution, closed once (Ledger, append_action, update_action).       *)
THEOREM StoresKeepTheBook == Spec => KeepsBook
<1>1. Init => Book!Init
  BY BookInit
<1>2. Inv /\ [Next]_vars => [Book!Next]_<<BookReceipts, BookExecutions>>
  BY BookStep
<1> QED
  BY <1>1, <1>2, StoreInvariant, PTL DEF Spec, KeepsBook, Book!Spec, BookReceipts, BookExecutions

-----------------------------------------------------------------------------
(* What a reader of the roster may rely on. *)

Reading == {"read_asks", "read_grants"}

(* Only DynamoDB returns replaced versions; SQLite's reader has the lock;   *)
(* and the acceptance comes before the duty, in the store and in every      *)
(* view of it.                                                              *)
Fresh == backing # "dynamodb" => \A i \in Items : recent[i] = {item[i]}
Locked == backing = "sqlite" => \A w \in Workers : pc[w] \in Reading => lock = w

Consent ==
  /\ \A w \in Workers : pc[w] \in Holding => item[Ask(key[w])] = "accepted"
  /\ \A k \in Keys : item[Duty(k[1])] = k[2] => item[Ask(k)] = "accepted"
  /\ \A w \in Workers, k \in Keys :
       pc[w] \in Reading /\ view[w].duties[k[1]] = k[2] => item[Ask(k)] = "accepted"

ReadInv ==
  /\ TypeOK /\ KeyShape
  /\ Fresh /\ Locked
  /\ SnapshotIsOneInstant
  /\ backing # "dynamodb" => Consent
  /\ SnapshotShowsConsent

LEMMA PutAllFresh ==
  ASSUME Fresh, backing' = backing, NEW changed, NEW value, PutAll(changed, value)
  PROVE  Fresh'
<1>1. ASSUME NEW i \in Items, backing # "dynamodb" PROVE recent'[i] = {item'[i]}
  BY <1>1 DEF PutAll, Fresh
<1> QED
  BY <1>1 DEF Fresh

(* A write leaves every reader of SQLite out, and keeps every acceptance.   *)
LEMMA WriteReads ==
  ASSUME ReadInv, TypeOK', KeyShape', NEW w \in Workers, NEW label \in Labels \ Reading,
         Unlocked, UNCHANGED <<backing, lock, view>>, Fresh',
         pc' = [pc EXCEPT ![w] = label],
         \A v \in Workers \ {w} : key'[v] = key[v],
         label \in Holding => item'[Ask(key'[w])] = "accepted",
         \A k \in Keys : item[Ask(k)] = "accepted" => item'[Ask(k)] = "accepted",
         backing # "dynamodb" =>
           \A k \in Keys : item'[Duty(k[1])] = k[2] => item'[Ask(k)] = "accepted"
  PROVE  ReadInv'
<1>1. /\ pc'[w] = label
      /\ \A v \in Workers \ {w} : pc'[v] = pc[v]
      /\ w # None
  BY StoreAssumption DEF ReadInv, TypeOK
<1>2. ASSUME backing = "sqlite", NEW v \in Workers PROVE pc'[v] \notin Reading
  BY <1>1, <1>2, StoreAssumption DEF Unlocked, ReadInv, Locked
<1>3. Locked' /\ SnapshotIsOneInstant'
  BY <1>2 DEF Locked, SnapshotIsOneInstant, Reading
<1>4. ASSUME backing # "dynamodb" PROVE Consent'
  <2>1. ASSUME NEW v \in Workers, pc'[v] \in Holding PROVE item'[Ask(key'[v])] = "accepted"
    <3>1. CASE v = w
      BY <1>1, <2>1, <3>1
    <3>2. CASE v # w
      <4>1. key'[v] = key[v] /\ key[v] \in Keys /\ item[Ask(key[v])] = "accepted"
        BY <1>1, <1>4, <2>1, <3>2, HeldKey DEF ReadInv, Consent
      <4> QED
        BY <4>1
    <3> QED
      BY <3>1, <3>2
  <2>2. ASSUME NEW v \in Workers, NEW k \in Keys,
               pc'[v] \in Reading, view'[v].duties[k[1]] = k[2]
        PROVE  item'[Ask(k)] = "accepted"
    BY <1>1, <1>4, <2>2 DEF ReadInv, Consent
  <2> QED
    BY <1>4, <2>1, <2>2 DEF Consent
<1>5. SnapshotShowsConsent'
  BY <1>1 DEF ReadInv, SnapshotShowsConsent, Reading
<1> QED
  BY <1>3, <1>4, <1>5 DEF ReadInv

LEMMA ReadAccept ==
  ASSUME ReadInv, TypeOK', KeyShape', NEW w \in Workers, NEW k \in Keys, Accept(w, k)
  PROVE  ReadInv'
<1>1. /\ item'[Ask(k)] = "accepted"
      /\ \A j \in Items \ {Ask(k)} : item'[j] = item[j]
  BY ItemsThere, PutOne DEF Accept
<1>2. \A d \in Duties : item'[Duty(d)] = item[Duty(d)]
  BY <1>1, ItemsThere, ItemsDiffer
<1>3. \A j \in Keys : item[Ask(j)] = "accepted" => item'[Ask(j)] = "accepted"
  BY <1>1, ItemsThere
<1>4. Fresh'
  BY PutAllFresh DEF ReadInv, Accept, Put, Elsewhere
<1>5. /\ key'[w] = k /\ \A v \in Workers \ {w} : key'[v] = key[v]
      /\ "find" \in Labels \ Reading
  BY DEF Accept, ReadInv, TypeOK, Labels, Reading
<1>6. backing # "dynamodb" =>
        \A j \in Keys : item'[Duty(j[1])] = j[2] => item'[Ask(j)] = "accepted"
  BY <1>2, <1>3 DEF ReadInv, Consent, Keys
<1> QED
  BY <1>1, <1>3, <1>4, <1>5, <1>6, WriteReads DEF Accept, Put, Elsewhere

(* A step of an assignment that goes on, whatever it writes.                *)
LEMMA ReadOn ==
  ASSUME ReadInv, TypeOK', KeyShape', NEW w \in Workers, pc[w] \in Holding,
         NEW label \in Labels \ Reading, Goto(w, label), Unlocked, UNCHANGED Elsewhere,
         Fresh',
         \A k \in Keys : item'[Ask(k)] = item[Ask(k)],
         \A d \in Duties : item'[Duty(d)] # item[Duty(d)] =>
                             d = key[w][1] /\ item'[Duty(d)] = key[w][2]
  PROVE  ReadInv'
<1>1. key[w] \in Keys
  BY HeldKey DEF ReadInv
<1>2. /\ label # "idle" => key'[w] = key[w]
      /\ \A v \in Workers \ {w} : key'[v] = key[v]
      /\ pc' = [pc EXCEPT ![w] = label]
  BY DEF Goto, ReadInv, TypeOK
<1>3. ASSUME backing # "dynamodb" PROVE item[Ask(key[w])] = "accepted"
  BY <1>3 DEF ReadInv, Consent
<1>4. ASSUME backing # "dynamodb", NEW k \in Keys, item'[Duty(k[1])] = k[2]
      PROVE  item'[Ask(k)] = "accepted"
  <2>1. CASE item[Duty(k[1])] = k[2]
    BY <1>4, <2>1 DEF ReadInv, Consent
  <2>2. CASE item[Duty(k[1])] # k[2]
    <3>1. k[1] \in Duties /\ k[1] = key[w][1] /\ k[2] = key[w][2]
      BY <1>4, <2>2 DEF Keys
    <3>2. k = key[w]
      BY <1>1, <3>1 DEF Keys
    <3> QED
      BY <1>3, <1>4, <3>2
  <2> QED
    BY <2>1, <2>2
<1>5. CASE backing # "dynamodb"
  <2>1. label \in Holding => item'[Ask(key'[w])] = "accepted"
    BY <1>1, <1>2, <1>3, <1>5 DEF Holding
  <2> QED
    BY <1>2, <1>4, <2>1, WriteReads DEF Elsewhere
<1>6. CASE backing = "dynamodb"
  <2>1. backing' = "dynamodb"
    BY <1>6 DEF Elsewhere
  <2> QED
    BY <1>6, <2>1 DEF ReadInv, Fresh, Locked, SnapshotIsOneInstant, SnapshotShowsConsent
<1> QED
  BY <1>5, <1>6

(* The steps that only look, inside an assignment.                          *)
LEMMA ReadLook ==
  ASSUME ReadInv, TypeOK', KeyShape', NEW w \in Workers,
         \/ FindClaim(w) \/ FindReceipt(w) \/ RaiseUnreadable(w)
         \/ LoseClaim(w) \/ RaiseNotFound(w) \/ ReadBack(w)
  PROVE  ReadInv'
<1>1. UNCHANGED <<backing, item, recent, lock, view>>
  BY DEF FindClaim, FindReceipt, RaiseUnreadable, LoseClaim, RaiseNotFound, ReadBack, Elsewhere
<1>2. pc[w] \in Holding
  BY DEF FindClaim, FindReceipt, RaiseUnreadable, LoseClaim, RaiseNotFound, ReadBack,
         Holding, Labels
<1>3. /\ pc'[w] \in Labels \ Reading
      /\ pc'[w] # "idle" => key'[w] = key[w]
      /\ \A v \in Workers \ {w} : pc'[v] = pc[v] /\ key'[v] = key[v]
  BY DEF FindClaim, FindReceipt, RaiseUnreadable, LoseClaim, RaiseNotFound, ReadBack, Goto,
         ReadInv, TypeOK, Labels, Reading
<1>4. Fresh' /\ Locked'
  BY <1>1, <1>3 DEF ReadInv, Fresh, Locked
<1>5. SnapshotIsOneInstant'
  BY <1>1, <1>3 DEF ReadInv, SnapshotIsOneInstant, Reading
<1>6. SnapshotShowsConsent'
  BY <1>1, <1>3 DEF ReadInv, SnapshotShowsConsent, Reading
<1>7. ASSUME backing # "dynamodb" PROVE Consent'
  <2>1. \A v \in Workers : pc'[v] \in Holding => item'[Ask(key'[v])] = "accepted"
    BY <1>1, <1>2, <1>3, <1>7 DEF ReadInv, Consent, Holding
  <2> QED
    BY <1>1, <1>3, <1>7, <2>1 DEF ReadInv, Consent
<1> QED
  BY <1>1, <1>4, <1>5, <1>6, <1>7 DEF ReadInv

LEMMA ReadWrite ==
  ASSUME ReadInv, TypeOK', KeyShape', NEW w \in Workers,
         \/ ClaimKey(w) \/ WriteDuty(w)
         \/ MarkExecuted(w) \/ CloseVerified(w) \/ CloseConflicted(w)
         \/ \E r \in {"open", "blocked"} :
              PutReceipt(w, r) \/ InsertReceipt(w, r) \/ OverwriteKey(w, r)
  PROVE  ReadInv'
<1>0. Stored
  BY TypeIsStored DEF ReadInv
<1>1. pc[w] \in Holding
  BY DEF ClaimKey, WriteDuty, MarkExecuted, CloseVerified, CloseConflicted, UpdateReceipt,
         PutReceipt, InsertReceipt, OverwriteKey, Holding, Labels
<1>2. key[w] \in Keys /\ key[w][1] \in Duties /\ key[w][2] \in People
  BY <1>1, HeldKey DEF ReadInv
<1>3. UNCHANGED Elsewhere /\ Unlocked
  BY DEF ClaimKey, WriteDuty, MarkExecuted, CloseVerified, CloseConflicted, UpdateReceipt,
         PutReceipt, InsertReceipt, OverwriteKey, ClaimAndAppend, Put
<1>4. PICK label \in Labels \ Reading : Goto(w, label)
  BY DEF ClaimKey, WriteDuty, MarkExecuted, CloseVerified, CloseConflicted, UpdateReceipt,
         PutReceipt, InsertReceipt, OverwriteKey, ClaimAndAppend, Appended, Labels, Reading
<1>5. /\ Fresh'
      /\ \A k \in Keys : item'[Ask(k)] = item[Ask(k)]
      /\ \A d \in Duties : item'[Duty(d)] # item[Duty(d)] =>
                             d = key[w][1] /\ item'[Duty(d)] = key[w][2]
  <2>1. ASSUME NEW changed, NEW value, PutAll(changed, value) PROVE Fresh'
    BY <1>3, <2>1, PutAllFresh DEF ReadInv, Elsewhere
  <2>2. ASSUME NEW i \in Items, NEW v, Put(i, v)
        PROVE  Fresh' /\ \A j \in Items \ {i} : item'[j] = item[j]
    BY <2>1, <2>2, PutOne DEF Put
  <2>3. CASE ClaimKey(w)
    BY <1>2, <2>2, <2>3, ItemsThere, ItemsDiffer DEF ClaimKey
  <2>4. CASE WriteDuty(w)
    <3>1. Put(Duty(key[w][1]), key[w][2]) /\ Duty(key[w][1]) \in Items
      BY <1>2, <2>4, ItemsThere DEF WriteDuty
    <3>2. /\ Fresh'
          /\ item'[Duty(key[w][1])] = key[w][2]
          /\ \A j \in Items \ {Duty(key[w][1])} : item'[j] = item[j]
      BY <2>2, <3>1, PutOne
    <3> QED
      BY <1>2, <3>2, ItemsThere, ItemsDiffer
  <2>5. CASE \/ MarkExecuted(w) \/ CloseVerified(w) \/ CloseConflicted(w)
             \/ \E r \in {"open", "blocked"} : PutReceipt(w, r)
    <3>1. PICK r \in Results : Put(Receipt(key[w], w), r)
      BY <2>5 DEF MarkExecuted, CloseVerified, CloseConflicted, UpdateReceipt, PutReceipt, Results
    <3> QED
      BY <1>2, <2>2, <3>1, ItemsThere, ItemsDiffer
  <2>6. ASSUME NEW r \in {"open", "blocked"}, InsertReceipt(w, r) \/ OverwriteKey(w, r)
        PROVE  /\ Fresh'
               /\ \A k \in Keys : item'[Ask(k)] = item[Ask(k)]
               /\ \A d \in Duties : item'[Duty(d)] = item[Duty(d)]
    <3>1. PICK value : PutAll({Claim(key[w]), Receipt(key[w], w)}, value)
      BY <2>6 DEF InsertReceipt, OverwriteKey, ClaimAndAppend
    <3>2. \A j \in Items \ {Claim(key[w]), Receipt(key[w], w)} : item'[j] = item[j]
      BY <3>1 DEF PutAll
    <3> QED
      BY <1>2, <2>1, <3>1, <3>2, ItemsThere, ItemsDiffer
  <2> QED
    BY <2>3, <2>4, <2>5, <2>6
<1> QED
  BY <1>1, <1>3, <1>4, <1>5, ReadOn

(* Loading the roster, call by call, and dying.                             *)
LEMMA ReadRoster ==
  ASSUME ReadInv, TypeOK', KeyShape', NEW w \in Workers, ReadStep(w) \/ Crash(w)
  PROVE  ReadInv'
<1>1. UNCHANGED <<backing, item, recent>> /\ w # None
  BY StoreAssumption DEF ReadStep, ReadDuties, ReadAsks, EndRead, Crash, StorePart
<1>2. /\ pc'[w] \in {"idle", "read_asks", "read_grants"}
      /\ \A v \in Workers \ {w} : pc'[v] = pc[v] /\ key'[v] = key[v] /\ view'[v] = view[v]
  BY DEF ReadStep, ReadDuties, ReadAsks, EndRead, Crash, Goto, ReadInv, TypeOK
<1>3. Fresh'
  BY <1>1 DEF ReadInv, Fresh
<1>4. /\ \A v \in Workers : pc'[v] \in Holding => item'[Ask(key'[v])] = item[Ask(key[v])] /\ pc[v] \in Holding
  BY <1>1, <1>2 DEF Holding
<1>5. CASE ReadDuties(w)
  <2>1. /\ pc[w] = "idle" /\ pc'[w] = "read_asks" /\ Unlocked
        /\ lock' = (IF backing = "sqlite" THEN w ELSE lock)
        /\ \A d \in Duties : view'[w].duties[d] \in recent[Duty(d)]
    BY <1>5 DEF ReadDuties, Goto, ReadInv, TypeOK
  <2>2. ASSUME backing # "dynamodb", NEW d \in Duties PROVE view'[w].duties[d] = item[Duty(d)]
    BY <2>1, <2>2, ItemsThere DEF ReadInv, Fresh
  <2>3. ASSUME backing = "sqlite", NEW v \in Workers \ {w} PROVE pc'[v] \notin Reading
    BY <1>2, <2>1, <2>3, StoreAssumption DEF Unlocked, ReadInv, Locked
  <2>4. Locked'
    BY <1>1, <2>1, <2>3 DEF Locked
  <2>5. SnapshotIsOneInstant'
    BY <1>1, <2>1, <2>2, <2>3 DEF SnapshotIsOneInstant, Reading
  <2>6. SnapshotShowsConsent'
    BY <1>1, <1>2, <2>1 DEF ReadInv, SnapshotShowsConsent
  <2>7. ASSUME backing # "dynamodb" PROVE Consent'
    <3>1. ASSUME NEW v \in Workers, NEW k \in Keys,
                 pc'[v] \in Reading, view'[v].duties[k[1]] = k[2]
          PROVE  item'[Ask(k)] = "accepted"
      <4>1. k[1] \in Duties
        BY DEF Keys
      <4> QED
        BY <1>1, <1>2, <2>2, <2>7, <3>1, <4>1 DEF ReadInv, Consent
    <3> QED
      BY <1>1, <1>4, <2>7, <3>1 DEF ReadInv, Consent
  <2> QED
    BY <1>1, <1>3, <2>4, <2>5, <2>6, <2>7 DEF ReadInv
<1>6. CASE ReadAsks(w)
  <2>1. /\ pc[w] = "read_asks" /\ pc'[w] = "read_grants" /\ lock' = lock
        /\ view'[w].duties = view[w].duties
        /\ \A k \in Keys : view'[w].asks[k] \in recent[Ask(k)]
    BY <1>6 DEF ReadAsks, Goto, ReadInv, TypeOK
  <2>2. ASSUME backing # "dynamodb", NEW k \in Keys PROVE view'[w].asks[k] = item[Ask(k)]
    BY <2>1, <2>2, ItemsThere DEF ReadInv, Fresh
  <2>3. Locked'
    BY <1>1, <1>2, <2>1 DEF ReadInv, Locked, Reading
  <2>4. SnapshotIsOneInstant'
    BY <1>1, <1>2, <2>1, <2>2 DEF ReadInv, SnapshotIsOneInstant
  <2>5. ASSUME backing # "dynamodb" PROVE Consent'
    BY <1>1, <1>2, <1>4, <2>1, <2>5 DEF ReadInv, Consent, Reading
  <2>6. SnapshotShowsConsent'
    BY <1>1, <1>2, <2>1, <2>2 DEF ReadInv, SnapshotShowsConsent, Consent, Reading
  <2> QED
    BY <1>1, <1>3, <2>3, <2>4, <2>5, <2>6 DEF ReadInv
<1>7. CASE EndRead(w) \/ Crash(w)
  <2>1. pc'[w] = "idle" /\ lock' = (IF lock = w THEN None ELSE lock)
    BY <1>7 DEF EndRead, Crash, Goto, ReadInv, TypeOK
  <2>2. Locked'
    BY <1>1, <1>2, <2>1 DEF ReadInv, Locked, Reading
  <2>3. SnapshotIsOneInstant' /\ SnapshotShowsConsent'
    BY <1>1, <1>2, <2>1 DEF ReadInv, SnapshotIsOneInstant, SnapshotShowsConsent
  <2>4. ASSUME backing # "dynamodb" PROVE Consent'
    BY <1>1, <1>2, <1>4, <2>1, <2>4 DEF ReadInv, Consent, Reading
  <2> QED
    BY <1>1, <1>3, <2>2, <2>3, <2>4 DEF ReadInv
<1> QED
  BY <1>5, <1>6, <1>7 DEF ReadStep

LEMMA ReadInit == Init => ReadInv
<1> SUFFICES ASSUME Init PROVE ReadInv
  OBVIOUS
<1>1. Fresh
  BY DEF Init, Fresh
<1>2. Locked /\ SnapshotIsOneInstant /\ SnapshotShowsConsent
  BY DEF Init, Locked, SnapshotIsOneInstant, SnapshotShowsConsent, Reading
<1>3. Consent
  <2>1. \A k \in Keys : item[Duty(k[1])] = None /\ k[2] # None
    BY ItemsThere, StoreAssumption DEF Init, Keys
  <2> QED
    BY <2>1 DEF Init, Consent, Reading, Holding
<1> QED
  BY <1>1, <1>2, <1>3, InitShape DEF ReadInv

LEMMA ReadNext ==
  ASSUME ReadInv, [Next]_vars
  PROVE  ReadInv'
<1>1. TypeOK' /\ KeyShape'
  BY StepShape DEF ReadInv
<1>2. CASE UNCHANGED vars
  BY <1>1, <1>2 DEF vars, ReadInv, Fresh, Locked, Consent, SnapshotIsOneInstant,
                    SnapshotShowsConsent
<1>3. ASSUME NEW w \in Workers, BeginStep(w) \/ ActStep(w) \/ ReadStep(w) \/ Crash(w)
      PROVE  ReadInv'
  BY <1>1, <1>3, ReadAccept, ReadLook, ReadWrite, ReadRoster DEF BeginStep, ActStep
<1> QED
  BY <1>2, <1>3 DEF Next

THEOREM ReadersInvariant == Spec => []ReadInv
<1> QED
  BY ReadInit, ReadNext, PTL DEF Spec

(* "Five reads that must all describe the same instant": SQLite's lock is   *)
(* held across load_roster, so nothing a reader has seen changes before it  *)
(* is done, and a reader that dies leaves no lock behind.                   *)
THEOREM OneInstant == Spec => []SnapshotIsOneInstant
<1>1. ReadInv => SnapshotIsOneInstant
  BY DEF ReadInv
<1> QED
  BY <1>1, ReadersInvariant, PTL

(* In memory and in SQLite a roster that shows somebody on a duty shows the *)
(* acceptance too: load_roster reads duties before asks, record_response    *)
(* writes the ask before the duty.                                          *)
THEOREM ConsentIsShown == Spec => []SnapshotShowsConsent
<1>1. ReadInv => SnapshotShowsConsent
  BY DEF ReadInv
<1> QED
  BY <1>1, ReadersInvariant, PTL

-----------------------------------------------------------------------------
(* A claim is left without its receipt by a crash, and by nothing else. *)

(* A step at which every receipt there was is kept, and every claim that is *)
(* set has its receipt or its worker about to write it.                     *)
LEMMA DanglingStays ==
  ASSUME NEW w \in Workers,
         \A v \in Workers \ {w} : pc'[v] = pc[v] /\ key'[v] = key[v],
         \A k \in Keys :
           \/ /\ item'[Claim(k)] = item[Claim(k)]
              /\ \A v \in Workers : item[Receipt(k, v)] # None => item'[Receipt(k, v)] # None
              /\ pc[w] = "put_receipt" /\ key[w] = k => item'[Receipt(k, w)] # None
           \/ /\ item'[Claim(k)] = w
              /\ \/ item'[Receipt(k, w)] # None
                 \/ pc'[w] = "put_receipt" /\ key'[w] = k,
         \A k \in Keys : item[Claim(k)] \in Workers \cup {None}
  PROVE  Dangling' \subseteq Dangling
<1>1. ASSUME NEW k \in Keys, k \in Dangling'
      PROVE  k \in Dangling
  <2>1. /\ item'[Claim(k)] # None
        /\ item'[Receipt(k, item'[Claim(k)])] = None
        /\ ~(pc'[item'[Claim(k)]] = "put_receipt" /\ key'[item'[Claim(k)]] = k)
    BY <1>1 DEF Dangling, Claim, Receipt
  <2>2. item'[Claim(k)] = item[Claim(k)] /\ item[Claim(k)] \in Workers
    BY <2>1
  <2> DEFINE c == item[Claim(k)]
  <2>3. item[Receipt(k, c)] = None
    BY <2>1, <2>2
  <2>4. ~(pc[c] = "put_receipt" /\ key[c] = k)
    BY <2>1, <2>2
  <2> QED
    BY <2>1, <2>2, <2>3, <2>4 DEF Dangling
<1> QED
  BY <1>1 DEF Dangling

LEMMA DanglingLook ==
  ASSUME TypeOK, KeyShape, NEW w \in Workers,
         \/ \E k \in Keys : Accept(w, k)
         \/ FindClaim(w) \/ FindReceipt(w) \/ RaiseUnreadable(w)
         \/ LoseClaim(w) \/ RaiseNotFound(w) \/ ReadBack(w)
         \/ WriteDuty(w) \/ ReadStep(w)
  PROVE  Dangling' \subseteq Dangling
<1>1. pc[w] # "put_receipt"
  BY DEF Accept, FindClaim, FindReceipt, RaiseUnreadable, LoseClaim, RaiseNotFound, ReadBack,
         WriteDuty, ReadStep, ReadDuties, ReadAsks, EndRead
<1>2. \A v \in Workers \ {w} : pc'[v] = pc[v] /\ key'[v] = key[v]
  BY DEF Accept, FindClaim, FindReceipt, RaiseUnreadable, LoseClaim, RaiseNotFound, ReadBack,
         WriteDuty, ReadStep, ReadDuties, ReadAsks, EndRead, Goto, TypeOK
<1>3. /\ \A k \in Keys : item'[Claim(k)] = item[Claim(k)]
      /\ \A i \in ReceiptItems : item'[i] = item[i]
  <2>1. CASE \E k \in Keys : Accept(w, k)
    BY <2>1, TypeIsStored, PutAskStored DEF Accept
  <2>2. CASE WriteDuty(w)
    <3>1. key[w][1] \in Duties /\ Put(Duty(key[w][1]), key[w][2])
      BY <2>2, HeldKey DEF WriteDuty, Holding, Labels
    <3>2. \A j \in Items \ {Duty(key[w][1])} : item'[j] = item[j]
      BY <3>1, ItemsThere, PutOne
    <3> QED
      BY <3>1, <3>2, ItemsThere, ItemsDiffer
  <2>3. CASE item' = item
    BY <2>3
  <2> QED
    BY <2>1, <2>2, <2>3 DEF FindClaim, FindReceipt, RaiseUnreadable, LoseClaim,
       RaiseNotFound, ReadBack, ReadStep, ReadDuties, ReadAsks, EndRead, StorePart
<1>4. \A k \in Keys, v \in Workers : item'[Receipt(k, v)] = item[Receipt(k, v)]
  BY <1>3, ItemsThere
<1>5. \A k \in Keys : item[Claim(k)] \in Workers \cup {None}
  BY DEF TypeOK
<1> QED
  BY <1>1, <1>2, <1>3, <1>4, <1>5, DanglingStays

(* The claim of DynamoDB: its receipt is the worker's next write.           *)
LEMMA DanglingClaim ==
  ASSUME TypeOK, KeyShape, NEW w \in Workers, ClaimKey(w)
  PROVE  Dangling' \subseteq Dangling
<1>1. pc[w] = "append" /\ key[w] \in Keys /\ Goto(w, "put_receipt")
  BY HeldKey DEF ClaimKey, Holding, Labels
<1>2. /\ item'[Claim(key[w])] = w
      /\ \A k \in Keys \ {key[w]} : item'[Claim(k)] = item[Claim(k)]
      /\ \A i \in ReceiptItems : item'[i] = item[i]
  BY <1>1, TypeIsStored, PutClaimStored DEF ClaimKey
<1>3. \A k \in Keys, v \in Workers : item'[Receipt(k, v)] = item[Receipt(k, v)]
  BY <1>2, ItemsThere
<1>4. /\ pc'[w] = "put_receipt" /\ key'[w] = key[w]
      /\ \A v \in Workers \ {w} : pc'[v] = pc[v] /\ key'[v] = key[v]
  BY <1>1, GotoShape DEF Labels
<1>5. \A k \in Keys : item[Claim(k)] \in Workers \cup {None}
  BY DEF TypeOK
<1> QED
  BY <1>1, <1>2, <1>3, <1>4, <1>5, DanglingStays

LEMMA DanglingWrite ==
  ASSUME TypeOK, KeyShape, NEW w \in Workers,
         \/ MarkExecuted(w) \/ CloseVerified(w) \/ CloseConflicted(w)
         \/ \E r \in {"open", "blocked"} :
              PutReceipt(w, r) \/ InsertReceipt(w, r) \/ OverwriteKey(w, r)
  PROVE  Dangling' \subseteq Dangling
<1>0. None \notin Results /\ Stored
  BY StoreAssumption, TypeIsStored
<1>1. pc[w] \in Holding
  BY DEF MarkExecuted, CloseVerified, CloseConflicted, UpdateReceipt, PutReceipt,
         InsertReceipt, OverwriteKey, Holding, Labels
<1>2. key[w] \in Keys
  BY <1>1, HeldKey
<1>3. \A v \in Workers \ {w} : pc'[v] = pc[v] /\ key'[v] = key[v]
  BY DEF MarkExecuted, CloseVerified, CloseConflicted, UpdateReceipt, PutReceipt,
         InsertReceipt, OverwriteKey, ClaimAndAppend, Appended, Goto, TypeOK
<1>4. \A k \in Keys : item[Claim(k)] \in Workers \cup {None}
  BY DEF TypeOK
<1>5. CASE \/ MarkExecuted(w) \/ CloseVerified(w) \/ CloseConflicted(w)
           \/ \E r \in {"open", "blocked"} : PutReceipt(w, r)
  <2>1. PICK r \in Results : Put(Receipt(key[w], w), r)
    BY <1>5 DEF MarkExecuted, CloseVerified, CloseConflicted, UpdateReceipt, PutReceipt, Results
  <2>2. /\ item'[Receipt(key[w], w)] = r
        /\ \A k \in Keys : item'[Claim(k)] = item[Claim(k)]
        /\ \A i \in ReceiptItems \ {Receipt(key[w], w)} : item'[i] = item[i]
    BY <1>0, <1>2, <2>1, PutReceiptStored
  <2>3. \A k \in Keys, v \in Workers :
          item[Receipt(k, v)] # None => item'[Receipt(k, v)] # None
    BY <1>0, <2>2, ItemsThere
  <2> QED
    BY <1>0, <1>3, <1>4, <2>2, <2>3, DanglingStays
<1>6. ASSUME NEW r \in {"open", "blocked"}, InsertReceipt(w, r) \/ OverwriteKey(w, r)
      PROVE  Dangling' \subseteq Dangling
  <2>1. r \in Results /\ ClaimAndAppend(w, r) /\ pc[w] = "append"
    BY <1>6 DEF InsertReceipt, OverwriteKey, Results
  <2>2. /\ item'[Claim(key[w])] = w
        /\ item'[Receipt(key[w], w)] = r
        /\ \A k \in Keys \ {key[w]} : item'[Claim(k)] = item[Claim(k)]
        /\ \A i \in ReceiptItems \ {Receipt(key[w], w)} : item'[i] = item[i]
    BY <1>0, <1>2, <2>1, ClaimAndAppendStored
  <2>3. \A k \in Keys, v \in Workers :
          item[Receipt(k, v)] # None => item'[Receipt(k, v)] # None
    BY <1>0, <2>1, <2>2, ItemsThere
  <2> QED
    BY <1>0, <1>3, <1>4, <2>1, <2>2, <2>3, DanglingStays
<1> QED
  BY <1>5, <1>6

(* Who dies leaves at most the claim it had just set.                       *)
LEMMA CrashDangling ==
  ASSUME TypeOK, NEW w \in Workers, Crash(w)
  PROVE  Dangling' \subseteq Dangling \cup {key[w]}
<1>1. item' = item /\ \A v \in Workers \ {w} : pc'[v] = pc[v] /\ key'[v] = key[v]
  BY DEF Crash, Goto, TypeOK
<1>2. ASSUME NEW k \in Keys, k \in Dangling', k # key[w]
      PROVE  k \in Dangling
  <2>1. /\ item[Claim(k)] # None
        /\ item[Receipt(k, item[Claim(k)])] = None
        /\ ~(pc'[item[Claim(k)]] = "put_receipt" /\ key'[item[Claim(k)]] = k)
    BY <1>1, <1>2 DEF Dangling, Claim, Receipt
  <2>2. item[Claim(k)] \in Workers
    BY <2>1 DEF TypeOK
  <2>3. ~(pc[item[Claim(k)]] = "put_receipt" /\ key[item[Claim(k)]] = k)
    BY <1>1, <1>2, <2>1, <2>2
  <2> QED
    BY <2>1, <2>3 DEF Dangling
<1> QED
  BY <1>2 DEF Dangling

CountedDangling == IsFiniteSet(Dangling) /\ Cardinality(Dangling) <= crashes

LEMMA DanglingStep ==
  ASSUME TypeOK, KeyShape, CountedDangling, [Next]_vars
  PROVE  CountedDangling'
<1>1. crashes \in Nat
  BY DEF TypeOK
<1>2. CASE Dangling' \subseteq Dangling /\ UNCHANGED crashes
  <2>1. IsFiniteSet(Dangling') /\ Cardinality(Dangling') <= Cardinality(Dangling)
    BY <1>2, FS_Subset DEF CountedDangling
  <2>2. Cardinality(Dangling) \in Nat /\ Cardinality(Dangling') \in Nat
    BY <2>1, FS_CardinalityType DEF CountedDangling
  <2> QED
    BY <1>1, <1>2, <2>1, <2>2 DEF CountedDangling
<1>3. ASSUME NEW w \in Workers, Crash(w)
      PROVE  CountedDangling'
  <2> DEFINE more == Dangling \cup {key[w]}
  <2>1. /\ IsFiniteSet(more) /\ Cardinality(more) \in Nat
        /\ Cardinality(more) <= crashes + 1
    <3>1. /\ IsFiniteSet(more)
          /\ Cardinality(more) \in {Cardinality(Dangling), Cardinality(Dangling) + 1}
      BY FS_AddElement DEF CountedDangling
    <3>2. Cardinality(Dangling) \in Nat
      BY FS_CardinalityType DEF CountedDangling
    <3> QED
      BY <1>1, <3>1, <3>2 DEF CountedDangling
  <2>2. Dangling' \subseteq more
    BY <1>3, CrashDangling
  <2>3. IsFiniteSet(Dangling') /\ Cardinality(Dangling') <= Cardinality(more)
    BY <2>1, <2>2, FS_Subset
  <2>4. Cardinality(Dangling') \in Nat
    BY <2>3, FS_CardinalityType
  <2>5. crashes' = crashes + 1
    BY <1>3 DEF Crash
  <2> HIDE DEF more
  <2> QED
    BY <1>1, <2>1, <2>3, <2>4, <2>5 DEF CountedDangling
<1>4. CASE UNCHANGED vars
  <2>1. Dangling' = Dangling
    BY <1>4 DEF Dangling, vars, Claim, Receipt
  <2> QED
    BY <1>2, <1>4, <2>1 DEF vars
<1>5. ASSUME NEW w \in Workers, BeginStep(w) \/ ActStep(w) \/ ReadStep(w)
      PROVE  CountedDangling'
  <2>1. UNCHANGED crashes
    BY <1>5 DEF BeginStep, ActStep, ReadStep, Accept, FindClaim, FindReceipt,
       RaiseUnreadable, ClaimKey, LoseClaim, PutReceipt, InsertReceipt, OverwriteKey,
       ClaimAndAppend, WriteDuty, MarkExecuted, ReadBack, CloseVerified, CloseConflicted,
       UpdateReceipt, RaiseNotFound, ReadDuties, ReadAsks, EndRead, Elsewhere, StorePart
  <2>2. Dangling' \subseteq Dangling
    BY <1>5, DanglingLook, DanglingClaim, DanglingWrite DEF BeginStep, ActStep
  <2> QED
    BY <1>2, <2>1, <2>2
<1> QED
  BY <1>3, <1>4, <1>5 DEF Next

LEMMA DanglingInit == Init => CountedDangling
<1> SUFFICES ASSUME Init PROVE CountedDangling
  OBVIOUS
<1>1. Dangling = {}
  BY ItemsThere DEF Init, Dangling
<1>2. crashes = 0
  BY DEF Init
<1>3. IsFiniteSet({}) /\ Cardinality({}) = 0
  BY FS_EmptySet
<1> QED
  BY <1>1, <1>2, <1>3 DEF CountedDangling

(* In each of the three stores a claim that no later call can read is left  *)
(* behind by a worker that died between its two writes, at most one per     *)
(* worker that died: "the claim exists or the write succeeded" (ledger.py)  *)
(* fails for good only after a crash.                                       *)
THEOREM OneDanglingPerCrash == Spec => []DanglingClaimsAreCrashes
<1>1. Init => TypeOK /\ KeyShape /\ CountedDangling
  BY InitShape, DanglingInit
<1>2. /\ TypeOK /\ KeyShape /\ CountedDangling /\ [Next]_vars
        => (TypeOK /\ KeyShape /\ CountedDangling)'
  BY StepShape, DanglingStep
<1>3. CountedDangling => DanglingClaimsAreCrashes
  BY DEF CountedDangling, DanglingClaimsAreCrashes
<1> QED
  BY <1>1, <1>2, <1>3, PTL DEF Spec
=============================================================================
