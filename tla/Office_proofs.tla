------------------------------ MODULE Office_proofs ------------------------------
(***************************************************************************)
(* Theorems of Office, for every roster, every calendar and any number of  *)
(* runs, messages, imports and briefs.                                     *)
(***************************************************************************)
EXTENDS Office, TimedFill_proofs

-----------------------------------------------------------------------------
(* A run of the agent. *)

Tools == {"list_gaps", "rank_candidates", "ask_next_person", "write_handover_brief"}
Calls == [tool : Tools, duty : Duties \cup {None}, refused : {None} \cup Refusals,
          gaps : Seq(Duties)]

(* The call that comes at a place: the listing, then rank and ask for each  *)
(* gap in turn, then the brief.                                             *)
Planned(gaps, i) ==
  IF i = 1 THEN Use("list_gaps", None)
  ELSE IF i = 2 * Len(gaps) + 2 THEN Use("write_handover_brief", None)
  ELSE IF i % 2 = 0 THEN Use("rank_candidates", gaps[i \div 2])
  ELSE Use("ask_next_person", gaps[i \div 2])

Distinct(gaps) == \A i, j \in DOMAIN gaps : gaps[i] = gaps[j] => i = j

InOrder(calls) ==
  LET gaps == GapsFrom(calls)
  IN /\ calls \in Seq(Calls)
     /\ gaps \in Seq(Duties) /\ Distinct(gaps)
     /\ Len(calls) <= 2 * Len(gaps) + 2
     /\ \A i \in DOMAIN calls :
          calls[i].tool = Planned(gaps, i).tool /\ calls[i].duty = Planned(gaps, i).duty

LEMMA Halves ==
  \A n \in Nat : /\ n \div 2 \in Nat
                 /\ \/ n % 2 = 0 /\ n = 2 * (n \div 2)
                    \/ n % 2 = 1 /\ n = 2 * (n \div 2) + 1
OBVIOUS

LEMMA Doubles ==
  \A k \in Nat : /\ (2 * k) % 2 = 0 /\ (2 * k) \div 2 = k
                 /\ (2 * k + 1) % 2 = 1 /\ (2 * k + 1) \div 2 = k
OBVIOUS

LEMMA PlannedTools ==
  ASSUME NEW gaps, NEW i
  PROVE  /\ Planned(gaps, i).tool = "list_gaps" <=> i = 1
         /\ Planned(gaps, i).tool = "write_handover_brief" <=>
              i # 1 /\ i = 2 * Len(gaps) + 2
         /\ Planned(gaps, i).tool = "rank_candidates" <=>
              i # 1 /\ i # 2 * Len(gaps) + 2 /\ i % 2 = 0
         /\ Planned(gaps, i).tool = "ask_next_person" <=>
              i # 1 /\ i # 2 * Len(gaps) + 2 /\ i % 2 # 0
         /\ Planned(gaps, i).tool \in {"rank_candidates", "ask_next_person"} =>
              Planned(gaps, i).duty = gaps[i \div 2]
BY DEF Planned, Use

LEMMA CallsOnGaps ==
  ASSUME NEW gaps, NEW i,
         Planned(gaps, i).tool \in {"rank_candidates", "ask_next_person"}
  PROVE  /\ i # 1 /\ i # 2 * Len(gaps) + 2 /\ Planned(gaps, i).duty = gaps[i \div 2]
         /\ Planned(gaps, i).tool = "rank_candidates" => i % 2 = 0
         /\ Planned(gaps, i).tool = "ask_next_person" => i % 2 # 0
BY DEF Planned, Use

(* What has been made of the plan, by its length alone.                     *)
LEMMA MadeSoFar ==
  ASSUME NEW calls, InOrder(calls)
  PROVE  LET gaps == GapsFrom(calls)
         IN /\ \A k \in DOMAIN gaps :
                 /\ gaps[k] \in Made(calls, "rank_candidates") <=> 2 * k <= Len(calls)
                 /\ gaps[k] \in Made(calls, "ask_next_person") <=> 2 * k + 1 <= Len(calls)
            /\ Made(calls, "write_handover_brief") = {} <=> Len(calls) < 2 * Len(gaps) + 2
<1> DEFINE gaps == GapsFrom(calls)
<1>1. PICK g : g = gaps
  OBVIOUS
<1>2. /\ calls \in Seq(Calls) /\ g \in Seq(Duties) /\ Distinct(g)
      /\ Len(calls) <= 2 * Len(g) + 2
      /\ \A i \in DOMAIN calls :
           calls[i].tool = Planned(g, i).tool /\ calls[i].duty = Planned(g, i).duty
  BY <1>1 DEF InOrder
<1>3. PICK n \in Nat, m \in Nat :
        /\ n = Len(calls) /\ DOMAIN calls = 1 .. n
        /\ m = Len(g) /\ DOMAIN g = 1 .. m
        /\ n <= 2 * m + 2
  BY <1>2
<1> HIDE DEF gaps
<1>4. ASSUME NEW k \in DOMAIN g
      PROVE  /\ g[k] \in Made(calls, "rank_candidates") <=> 2 * k <= n
             /\ g[k] \in Made(calls, "ask_next_person") <=> 2 * k + 1 <= n
  <2>0. k \in Nat /\ 1 <= k /\ k <= m
    BY <1>3
  <2>1. ASSUME NEW i \in DOMAIN calls, calls[i].duty = g[k],
               calls[i].tool \in {"rank_candidates", "ask_next_person"}
        PROVE  /\ calls[i].tool = "rank_candidates" => i = 2 * k
               /\ calls[i].tool = "ask_next_person" => i = 2 * k + 1
    <3>0. i \in Nat /\ 1 <= i /\ i <= n
      BY <1>3
    <3>1. g[i \div 2] = g[k] /\ i # 1 /\ i # 2 * m + 2
      <4>1. /\ Planned(g, i).tool \in {"rank_candidates", "ask_next_person"}
            /\ Planned(g, i).duty = g[k]
        BY <1>2, <2>1
      <4>2. Planned(g, i).duty = g[i \div 2] /\ i # 1 /\ i # 2 * Len(g) + 2
        BY <4>1, CallsOnGaps
      <4> QED
        BY <1>3, <4>1, <4>2
    <3>2. i \div 2 \in 1 .. m
      <4>1. i <= 2 * m + 1 /\ i >= 2
        BY <1>3, <3>0, <3>1
      <4> QED
        BY <1>3, <3>0, <4>1, Halves
    <3>3. i \div 2 = k
      BY <1>2, <1>3, <3>1, <3>2 DEF Distinct
    <3>4. /\ calls[i].tool = "rank_candidates" => i % 2 = 0
          /\ calls[i].tool = "ask_next_person" => i % 2 # 0
      BY <1>2, <1>3, PlannedTools
    <3> QED
      BY <3>0, <3>3, <3>4, Halves
  <2>2. ASSUME 2 * k <= n
        PROVE  2 * k \in DOMAIN calls /\ calls[2 * k].tool = "rank_candidates"
               /\ calls[2 * k].duty = g[k]
    <3>1. PICK i \in DOMAIN calls : i = 2 * k
      BY <1>3, <2>0, <2>2
    <3>2. i # 1 /\ i # 2 * Len(g) + 2
      BY <1>3, <2>0, <3>1
    <3>3. i % 2 = 0 /\ i \div 2 = k
      BY <2>0, <3>1, Doubles
    <3>4. Planned(g, i) = Use("rank_candidates", g[k])
      BY <3>2, <3>3 DEF Planned
    <3> QED
      BY <1>2, <3>1, <3>4 DEF Use
  <2>3. ASSUME 2 * k + 1 <= n
        PROVE  2 * k + 1 \in DOMAIN calls /\ calls[2 * k + 1].tool = "ask_next_person"
               /\ calls[2 * k + 1].duty = g[k]
    <3>1. PICK i \in DOMAIN calls : i = 2 * k + 1
      BY <1>3, <2>0, <2>3
    <3>2. i # 1 /\ i # 2 * Len(g) + 2
      BY <1>3, <2>0, <3>1
    <3>3. i % 2 = 1 /\ i \div 2 = k
      BY <2>0, <3>1, Doubles
    <3>4. Planned(g, i) = Use("ask_next_person", g[k])
      BY <3>2, <3>3 DEF Planned
    <3> QED
      BY <1>2, <3>1, <3>4 DEF Use
  <2>4. \A i \in DOMAIN calls : i <= n
    BY <1>3
  <2> QED
    BY <2>1, <2>2, <2>3, <2>4 DEF Made
<1>5. Made(calls, "write_handover_brief") = {} <=> n < 2 * m + 2
  <2>1. \A i \in DOMAIN calls :
          calls[i].tool = "write_handover_brief" <=> i # 1 /\ i = 2 * m + 2
    BY <1>2, <1>3, PlannedTools
  <2>2. CASE n < 2 * m + 2
    <3>1. \A i \in DOMAIN calls : calls[i].tool # "write_handover_brief"
      BY <1>3, <2>1, <2>2
    <3> QED
      BY <2>2, <3>1 DEF Made
  <2>3. CASE ~(n < 2 * m + 2)
    <3>1. n \in DOMAIN calls /\ n = 2 * m + 2 /\ n # 1
      BY <1>2, <1>3, <2>3
    <3>2. calls[n].duty \in Made(calls, "write_handover_brief")
      BY <2>1, <3>1 DEF Made
    <3> QED
      BY <2>3, <3>2
  <2> QED
    BY <2>2, <2>3
<1> QED
  BY <1>1, <1>3, <1>4, <1>5 DEF gaps

LEMMA MinIs ==
  ASSUME NEW S \in SUBSET Nat, NEW m \in S, \A x \in S : m <= x
  PROVE  Min(S) = m
<1>1. \A y \in S : (\A x \in S : y <= x) => y = m
  OBVIOUS
<1> QED
  BY <1>1 DEF Min

(* The plan reads the calls made so far and names the next in order.        *)
LEMMA PlanIsNext ==
  ASSUME NEW calls, InOrder(calls)
  PROVE  LET gaps == GapsFrom(calls)
         IN Plan(calls) = IF Len(calls) = 2 * Len(gaps) + 2 THEN Use("say", None)
                          ELSE Planned(gaps, Len(calls) + 1)
<1>1. PICK g : g = GapsFrom(calls)
  OBVIOUS
<1>2. PICK n : n = Len(calls)
  OBVIOUS
<1>3. /\ calls \in Seq(Calls) /\ g \in Seq(Duties)
      /\ n \in Nat /\ Len(g) \in Nat /\ DOMAIN g = 1 .. Len(g) /\ n <= 2 * Len(g) + 2
  BY <1>1, <1>2 DEF InOrder
<1> DEFINE todo == {i \in DOMAIN g : g[i] \notin Made(calls, "rank_candidates")
                                                  \cap Made(calls, "ask_next_person")}
<1>4. CASE n = 0
  <2>1. calls = <<>>
    <3>1. calls \in Seq(Calls) /\ Len(calls) = 0
      BY <1>2, <1>3, <1>4
    <3> QED
      BY <3>1, EmptySeq
  <2>2. g = <<>>
    BY <1>1, <2>1 DEF GapsFrom
  <2>3. Len(g) = 0
    BY <2>2
  <2> QED
    BY <1>1, <1>2, <1>4, <2>1, <2>3 DEF Plan, Planned
<1>5. CASE n # 0
  <2>1. calls # <<>>
    BY <1>2, <1>5
  <2>2. Plan(calls) =
          IF todo = {} THEN Finish(calls)
          ELSE IF g[Min(todo)] \notin Made(calls, "rank_candidates")
                 THEN Use("rank_candidates", g[Min(todo)])
                 ELSE Use("ask_next_person", g[Min(todo)])
    BY <1>1, <2>1 DEF Plan
  <2>3. /\ \A k \in DOMAIN g :
             /\ g[k] \in Made(calls, "rank_candidates") <=> 2 * k <= n
             /\ g[k] \in Made(calls, "ask_next_person") <=> 2 * k + 1 <= n
        /\ Made(calls, "write_handover_brief") = {} <=> n < 2 * Len(g) + 2
    BY <1>1, <1>2, MadeSoFar
  <2>4. \A k \in DOMAIN g : k \in todo <=> n < 2 * k + 1
    BY <1>3, <2>3
  <2>5. todo \subseteq DOMAIN g
    OBVIOUS
  <2> HIDE DEF todo
  <2>6. CASE n >= 2 * Len(g) + 1
    <3>1. todo = {}
      BY <1>3, <2>4, <2>5, <2>6
    <3>2. Plan(calls) = IF n < 2 * Len(g) + 2 THEN Use("write_handover_brief", None)
                        ELSE Use("say", None)
      BY <2>2, <2>3, <3>1 DEF Finish
    <3>3. n # 2 * Len(g) + 2 => n + 1 = 2 * Len(g) + 2 /\ n + 1 # 1
      BY <1>3, <2>6
    <3>4. n < 2 * Len(g) + 2 <=> n # 2 * Len(g) + 2
      BY <1>3
    <3> QED
      BY <1>1, <1>2, <3>2, <3>3, <3>4 DEF Planned
  <2>7. CASE n < 2 * Len(g) + 1
    <3>1. PICK k \in Nat : n = 2 * k \/ n = 2 * k - 1
      <4>1. CASE n = 2 * (n \div 2)
        BY <1>3, <4>1, Halves
      <4>2. CASE n = 2 * (n \div 2) + 1
        <5>1. n \div 2 + 1 \in Nat /\ n = 2 * (n \div 2 + 1) - 1
          BY <1>3, <4>2, Halves
        <5> QED
          BY <5>1
      <4> QED
        BY <1>3, <4>1, <4>2, Halves
    <3>2. k \in DOMAIN g /\ k # 0
      BY <1>3, <1>5, <2>7, <3>1
    <3>3. k \in todo /\ \A j \in todo : k <= j
      BY <1>3, <2>4, <2>5, <3>1, <3>2
    <3>4. Min(todo) = k
      BY <1>3, <2>5, <3>3, MinIs
    <3>5. n + 1 # 1 /\ n + 1 # 2 * Len(g) + 2 /\ n # 2 * Len(g) + 2
      BY <1>3, <1>5, <2>7
    <3>6. CASE n = 2 * k
      <4>1. Plan(calls) = Use("ask_next_person", g[k])
        BY <2>2, <2>3, <3>2, <3>3, <3>4, <3>6
      <4>2. (n + 1) % 2 = 1 /\ (n + 1) \div 2 = k
        BY <3>1, <3>6, Doubles
      <4> QED
        BY <1>1, <1>2, <3>5, <4>1, <4>2 DEF Planned
    <3>7. CASE n = 2 * k - 1
      <4>0. ~(2 * k <= n) /\ n + 1 = 2 * k
        BY <3>1, <3>7
      <4>1. Plan(calls) = Use("rank_candidates", g[k])
        BY <2>2, <2>3, <3>2, <3>3, <3>4, <4>0
      <4>2. (n + 1) % 2 = 0 /\ (n + 1) \div 2 = k
        BY <3>1, <4>0, Doubles
      <4> QED
        BY <1>1, <1>2, <3>5, <4>1, <4>2 DEF Planned
    <3> QED
      BY <3>1, <3>6, <3>7
  <2> QED
    BY <1>3, <2>6, <2>7
<1> QED
  BY <1>3, <1>4, <1>5

LEMMA GapsAreDistinct ==
  ASSUME NEW h
  PROVE  Gaps(h) \in Seq(Duties) /\ Distinct(Gaps(h))
<1> DEFINE near == {d \in Duties : /\ NeedsFilling(d)
                                   /\ Shift[d].start > now
                                   /\ (Shift[d].start - now) \div Day <= h}
<1>1. Gaps(h) = SoonestFirst(near) /\ near \subseteq Duties
  BY DEF Gaps
<1> HIDE DEF near
<1>2. /\ SoonestFirst(near) \in Seq(near)
      /\ \A i, j \in DOMAIN SoonestFirst(near) :
           i < j => Sooner(SoonestFirst(near)[i], SoonestFirst(near)[j])
  BY <1>1, SoonestFirstSorts
<1>3. PICK found \in Seq(near) : found = SoonestFirst(near)
  BY <1>2
<1>4. \A i \in DOMAIN found : i \in Int /\ found[i] \in Duties
  BY <1>1, <1>3
<1>5. \A i, j \in DOMAIN found : i < j => Sooner(found[i], found[j])
  BY <1>2, <1>3
<1>6. ASSUME NEW i \in DOMAIN found, NEW j \in DOMAIN found, found[i] = found[j]
      PROVE  i = j
  BY <1>4, <1>5, <1>6, SoonerOrders
<1>7. found \in Seq(Duties)
  BY <1>1, <1>3
<1> QED
  BY <1>1, <1>3, <1>6, <1>7 DEF Distinct

LEMMA ListedFirst ==
  ASSUME NEW calls \in Seq(Calls), calls # <<>>,
         \A i \in DOMAIN calls : calls[i].tool = "list_gaps" <=> i = 1
  PROVE  GapsFrom(calls) = calls[1].gaps
<1>1. 1 \in DOMAIN calls
  BY EmptySeq
<1>2. {i \in DOMAIN calls : calls[i].tool = "list_gaps"} = {1}
  BY <1>1
<1>3. Min({1}) = 1
  BY MinIs
<1> QED
  BY <1>2, <1>3 DEF GapsFrom

(* Making the call that comes next keeps the order.                         *)
LEMMA OrderKept ==
  ASSUME NEW calls, InOrder(calls), Len(calls) # 2 * Len(GapsFrom(calls)) + 2,
         NEW refused \in {None} \cup Refusals,
         NEW found \in Seq(Duties), Distinct(found)
  PROVE  InOrder(Append(calls, Call(Plan(calls), refused, found)))
<1>1. PICK g \in Seq(Duties), n \in Nat, m \in Nat :
        /\ g = GapsFrom(calls) /\ n = Len(calls) /\ m = Len(g)
        /\ n <= 2 * m + 2 /\ DOMAIN g = 1 .. m
  BY DEF InOrder
<1>2. /\ calls \in Seq(Calls) /\ DOMAIN calls = 1 .. n /\ Distinct(g) /\ n # 2 * m + 2
      /\ \A i \in DOMAIN calls :
           calls[i].tool = Planned(g, i).tool /\ calls[i].duty = Planned(g, i).duty
  BY <1>1 DEF InOrder
<1>3. Plan(calls) = Planned(g, n + 1)
  BY <1>1, <1>2, PlanIsNext
<1>4. PICK new : new = Call(Plan(calls), refused, found)
  OBVIOUS
<1>5. /\ new.tool = Planned(g, n + 1).tool /\ new.duty = Planned(g, n + 1).duty
      /\ new.gaps = found
  BY <1>3, <1>4 DEF Call
<1>6. new \in Calls
  <2>1. Planned(g, n + 1).tool \in Tools
    BY DEF Planned, Use, Tools
  <2>2. Planned(g, n + 1).duty \in Duties \cup {None}
    <3>1. CASE n + 1 = 1 \/ n + 1 = 2 * m + 2
      BY <1>1, <3>1 DEF Planned, Use
    <3>2. CASE n + 1 # 1 /\ n + 1 # 2 * m + 2
      <4>1. (n + 1) \div 2 \in 1 .. m
        <5>1. n + 1 \in Nat /\ n + 1 >= 2 /\ n + 1 <= 2 * m + 1
          BY <1>1, <1>2, <3>2
        <5> QED
          BY <1>1, <5>1, Halves
      <4>2. g[(n + 1) \div 2] \in Duties
        BY <1>1, <4>1
      <4> QED
        BY <1>1, <3>2, <4>2 DEF Planned, Use
    <3> QED
      BY <3>1, <3>2
  <2> QED
    BY <1>3, <1>4, <2>1, <2>2 DEF Call, Calls
<1>7. PICK after : after = Append(calls, new)
  OBVIOUS
<1>8. /\ after \in Seq(Calls) /\ Len(after) = n + 1 /\ DOMAIN after = 1 .. (n + 1)
      /\ after[n + 1] = new /\ \A i \in 1 .. n : after[i] = calls[i]
  BY <1>1, <1>2, <1>6, <1>7
<1>9. CASE n = 0
  <2>1. g = <<>>
    <3>1. calls = <<>>
      BY <1>1, <1>2, <1>9, EmptySeq
    <3> QED
      BY <1>1, <3>1 DEF GapsFrom
  <2>2. new.tool = "list_gaps" /\ new.duty = None
    BY <1>5, <1>9 DEF Planned, Use
  <2>3. GapsFrom(after) = found
    <3>1. \A i \in DOMAIN after : i = 1 /\ after[i] = new
      BY <1>8, <1>9
    <3>2. after # <<>>
      BY <1>8, EmptySeq
    <3> QED
      BY <1>5, <1>8, <1>9, <2>2, <3>1, <3>2, ListedFirst
  <2>4. \A i \in DOMAIN after :
          after[i].tool = Planned(found, i).tool /\ after[i].duty = Planned(found, i).duty
    BY <1>8, <1>9, <2>2 DEF Planned, Use
  <2>5. Len(after) <= 2 * Len(found) + 2
    <3>1. Len(found) \in Nat
      OBVIOUS
    <3> QED
      BY <1>8, <1>9, <3>1
  <2> QED
    BY <1>4, <1>7, <1>8, <2>3, <2>4, <2>5 DEF InOrder
<1>10. CASE n # 0
  <2>1. \A i \in DOMAIN after :
          after[i].tool = Planned(g, i).tool /\ after[i].duty = Planned(g, i).duty
    BY <1>1, <1>2, <1>5, <1>8
  <2>2. \A i \in DOMAIN after : after[i].tool = "list_gaps" <=> i = 1
    BY <2>1, PlannedTools
  <2>3. \A i \in DOMAIN calls : calls[i].tool = "list_gaps" <=> i = 1
    BY <1>2, PlannedTools
  <2>4. after # <<>> /\ calls # <<>> /\ after[1] = calls[1]
    BY <1>1, <1>8, <1>10, EmptySeq
  <2>5. GapsFrom(after) = g
    BY <1>1, <1>2, <1>8, <2>2, <2>3, <2>4, ListedFirst
  <2>6. n + 1 <= 2 * m + 2
    <3>1. n <= 2 * m + 2 /\ n # 2 * m + 2
      BY <1>1, <1>2
    <3> QED
      BY <3>1
  <2> QED
    BY <1>1, <1>2, <1>4, <1>7, <1>8, <2>1, <2>5, <2>6 DEF InOrder
<1> QED
  BY <1>9, <1>10

(* So a run is short, and makes no call twice.                              *)
LEMMA OrderIsShort ==
  ASSUME InOrder(history)
  PROVE  RunIsShort
<1>1. PICK g \in Seq(Duties), n \in Nat, m \in Nat :
        /\ g = GapsFrom(history) /\ n = Len(history) /\ m = Len(g)
        /\ n <= 2 * m + 2 /\ DOMAIN g = 1 .. m /\ DOMAIN history = 1 .. n /\ Distinct(g)
        /\ \A i \in DOMAIN history :
             history[i].tool = Planned(g, i).tool /\ history[i].duty = Planned(g, i).duty
  BY DEF InOrder
<1>2. ASSUME NEW i \in DOMAIN history, NEW j \in DOMAIN history,
             history[i].tool = history[j].tool, history[i].duty = history[j].duty
      PROVE  i = j
  <2>1. PICK tool : tool = Planned(g, i).tool /\ tool = Planned(g, j).tool
    BY <1>1, <1>2
  <2>2. CASE tool \in {"list_gaps", "write_handover_brief"}
    <3>1. CASE tool = "list_gaps"
      <4>1. Planned(g, i).tool = "list_gaps" /\ Planned(g, j).tool = "list_gaps"
        BY <2>1, <3>1
      <4>2. i = 1
        BY <4>1, PlannedTools
      <4>3. j = 1
        BY <4>1, PlannedTools
      <4> QED
        BY <4>2, <4>3
    <3>2. CASE tool = "write_handover_brief"
      <4>1. i = 2 * Len(g) + 2 /\ j = 2 * Len(g) + 2
        BY <2>1, <3>2, PlannedTools
      <4> QED
        BY <4>1
    <3> QED
      BY <2>2, <3>1, <3>2
  <2>3. CASE tool \in {"rank_candidates", "ask_next_person"}
    <3>1. /\ i # 1 /\ i # 2 * m + 2 /\ j # 1 /\ j # 2 * m + 2
          /\ i % 2 = 0 <=> j % 2 = 0
          /\ g[i \div 2] = g[j \div 2]
      <4>0. /\ Planned(g, i).tool \in {"rank_candidates", "ask_next_person"}
            /\ Planned(g, j).tool \in {"rank_candidates", "ask_next_person"}
        BY <2>1, <2>3
      <4>1. /\ i # 1 /\ i # 2 * Len(g) + 2 /\ Planned(g, i).duty = g[i \div 2]
            /\ Planned(g, i).tool = "rank_candidates" => i % 2 = 0
            /\ Planned(g, i).tool = "ask_next_person" => i % 2 # 0
        BY <4>0, CallsOnGaps
      <4>2. /\ j # 1 /\ j # 2 * Len(g) + 2 /\ Planned(g, j).duty = g[j \div 2]
            /\ Planned(g, j).tool = "rank_candidates" => j % 2 = 0
            /\ Planned(g, j).tool = "ask_next_person" => j % 2 # 0
        BY <4>0, CallsOnGaps
      <4>3. Planned(g, i).duty = Planned(g, j).duty /\ m = Len(g)
        BY <1>1, <1>2
      <4> QED
        BY <2>1, <2>3, <4>1, <4>2, <4>3
    <3>2. i \in Nat /\ j \in Nat /\ i >= 2 /\ j >= 2 /\ i <= 2 * m + 1 /\ j <= 2 * m + 1
      <4>1. m \in Nat /\ n \in Nat /\ n <= 2 * m + 2 /\ i \in 1 .. n /\ j \in 1 .. n
        BY <1>1
      <4>2. i # 1 /\ j # 1 /\ i # 2 * m + 2 /\ j # 2 * m + 2
        BY <3>1
      <4> QED
        BY <4>1, <4>2
    <3>3. i \div 2 \in 1 .. m /\ j \div 2 \in 1 .. m
      BY <1>1, <3>2, Halves
    <3>4. i \div 2 = j \div 2
      BY <1>1, <3>1, <3>3 DEF Distinct
    <3> QED
      BY <3>1, <3>2, <3>4, Halves
  <2>4. Planned(g, i).tool \in Tools
    BY DEF Planned, Use, Tools
  <2> QED
    BY <2>1, <2>2, <2>3, <2>4 DEF Tools
<1> QED
  BY <1>1, <1>2 DEF RunIsShort

-----------------------------------------------------------------------------
(* The gate: what a withdrawal and the hook come to. *)

LEMMA WithdrawPermitted ==
  ASSUME NEW d \in Duties, NEW p \in People, Allowed(Withdrawing(d, p))
  PROVE  holder[d] = p /\ Granted("write")
<1> DEFINE a == Withdrawing(d, p)
           rules == << <<holder[a.duty] = None, "R13">>,
                       <<holder[a.duty] # a.person, "R13">>,
                       <<~a.evidence, "R13">>,
                       <<~a.keyed, "R12">> >>
<1>1. a.class = "write" /\ a.person = p /\ a.duty = d /\ a.withdrawal = TRUE
  BY DEF Withdrawing, Asking
<1>2. Covering("write", p)
  <2>1. "R3-scope" \notin Approvals /\ "R3-none" \notin Approvals
    BY DEF Approvals
  <2> QED
    BY <1>1, <2>1 DEF Allowed, Rule
<1>3. Granted("write")
  BY <1>2 DEF Covering, Granted
<1>4. WithdrawRule(a) \in Approvals
  BY <1>1, <1>2 DEF Allowed, Rule
<1>5. WithdrawRule(a) = FirstRefusal(rules, "R13-self")
  BY <1>1 DEF WithdrawRule
<1>6. /\ rules[2][1] <=> holder[a.duty] # a.person
      /\ rules[1][2] = "R13" /\ rules[2][2] = "R13" /\ rules[3][2] = "R13"
      /\ rules[4][2] = "R12" /\ DOMAIN rules = 1 .. 4
  <2> HIDE DEF a
  <2>1. rules[2][1] <=> holder[a.duty] # a.person
    OBVIOUS
  <2>2. /\ rules[1][2] = "R13" /\ rules[2][2] = "R13"
        /\ rules[3][2] = "R13" /\ rules[4][2] = "R12"
    OBVIOUS
  <2>3. DOMAIN rules = 1 .. 4
    OBVIOUS
  <2> QED
    BY <2>1, <2>2, <2>3
<1> HIDE DEF rules
<1>7. /\ (\A i \in 1 .. 4 : ~rules[i][1]) => FirstRefusal(rules, "R13-self") = "R13-self"
      /\ (\E i \in 1 .. 4 : rules[i][1]) =>
           \E i \in 1 .. 4 : /\ rules[i][1]
                             /\ \A j \in 1 .. (i - 1) : ~rules[j][1]
                             /\ FirstRefusal(rules, "R13-self") = rules[i][2]
  BY <1>6, FirstOfFour
<1>8. \A i \in 1 .. 4 : rules[i][2] \in {"R13", "R12"}
  BY <1>6
<1>9. "R13" \notin Approvals /\ "R12" \notin Approvals
  BY DEF Approvals
<1>10. \A i \in 1 .. 4 : ~rules[i][1]
  BY <1>4, <1>5, <1>7, <1>8, <1>9
<1> QED
  BY <1>1, <1>3, <1>6, <1>10

(* What no grant covers the gate refuses, whoever it names.                 *)
LEMMA NothingGranted ==
  ASSUME NEW a, a.class \in {"draft", "send", "write"}, ~Granted(a.class)
  PROVE  Rule(a) = "R3-none" /\ ~Allowed(a)
<1>1. ~Covering(a.class, a.person)
  BY DEF Covering, Granted
<1>2. Rule(a) = "R3-none"
  BY <1>1 DEF Rule
<1> QED
  BY <1>2 DEF Allowed, Approvals

LEMMA HookCancels ==
  ASSUME NEW tool \in Tools \cup {"record_withdrawal"}, ~HookAllows(tool)
  PROVE  /\ Required(tool) \in {"send", "write"}
         /\ ~Granted(Required(tool))
         /\ tool = "ask_next_person" => ~Granted("draft")
<1>1. \A level \in {"draft", "send", "write"} : Granted(level) => level \in GrantedLevels
  BY DEF Granted, GrantedLevels
<1>2. Required(tool) \in Acceptable(tool) /\ (tool = "ask_next_person" => "draft" \in Acceptable(tool))
  BY DEF Acceptable
<1>3. Required(tool) \notin GrantedLevels /\ (tool = "ask_next_person" => "draft" \notin GrantedLevels)
  BY <1>2 DEF HookAllows
<1>4. Required(tool) \in {"read", "send", "write"} /\ "read" \in GrantedLevels
  BY DEF Required, GrantedLevels
<1>5. Required(tool) \in {"send", "write"}
  BY <1>3, <1>4
<1> QED
  BY <1>1, <1>3, <1>5

(* In every state of the roster, what the hook cancels the gate would have  *)
(* refused.                                                                 *)
LEMMA HookIsNoStricter == HookFollowsGate
<1>1. ASSUME ~HookAllows("ask_next_person"), NEW d \in Duties, NEW p \in People
      PROVE  ~Allowed(Asking("send", d, p)) /\ ~Allowed(Asking("draft", d, p))
  <2>1. ~Granted("send") /\ ~Granted("draft")
    BY <1>1, HookCancels DEF Tools, Required
  <2>2. Asking("send", d, p).class = "send" /\ Asking("draft", d, p).class = "draft"
    BY DEF Asking
  <2> QED
    BY <2>1, <2>2, NothingGranted
<1>2. ASSUME ~HookAllows("record_withdrawal"), NEW d \in Duties, NEW p \in People
      PROVE  ~Allowed(Withdrawing(d, p))
  <2>1. ~Granted("write")
    BY <1>2, HookCancels DEF Required
  <2> QED
    BY <2>1, WithdrawPermitted
<1> QED
  BY <1>1, <1>2 DEF HookFollowsGate, Candidates

-----------------------------------------------------------------------------
(* The book of receipts. *)

(* What a receipt that the brief reads says.                                *)
Telling(r) ==
  /\ r.result \in {"blocked", "verified"}
  /\ r.result = "verified" => r.class = "write" /\ r.duty \in Duties /\ r.person \in People

ReceiptsSay == \A k \in DOMAIN receipts : receipts[k].at \in 0 .. now /\ Telling(receipts[k])

(* A receipt of anything but an assignment, or none.                        *)
NotesOther ==
  \/ receipts' = receipts
  \/ \E k, r : /\ receipts' = Record(k, r) /\ k[1] # "assign"
               /\ r.at = now /\ now' = now /\ Telling(r)

LEMMA Recorded ==
  ASSUME NEW k, NEW r, receipts' = Record(k, r)
  PROVE  /\ DOMAIN receipts' = DOMAIN receipts \cup {k}
         /\ \A j \in DOMAIN receipts : receipts'[j] = receipts[j]
         /\ k \notin DOMAIN receipts => receipts'[k] = r
<1>1. CASE k \in DOMAIN receipts
  BY <1>1 DEF Record
<1>2. CASE k \notin DOMAIN receipts
  BY <1>2 DEF Record
<1> QED
  BY <1>1, <1>2

-----------------------------------------------------------------------------
(* The steps of the office, seen from the roster and the book. *)

RunInv ==
  /\ InOrder(history)
  /\ approved # None => /\ approved = Plan(history)
                        /\ Len(history) # 2 * Len(GapsFrom(history)) + 2

LEMMA ApprovedCalls ==
  ASSUME RunInv, approved # None
  PROVE  /\ approved.tool \in Tools
         /\ approved.tool = "ask_next_person" => approved.duty \in Duties
<1>1. PICK g \in Seq(Duties), n \in Nat, m \in Nat :
        /\ g = GapsFrom(history) /\ n = Len(history) /\ m = Len(g)
        /\ n <= 2 * m + 2 /\ DOMAIN g = 1 .. m /\ n # 2 * m + 2
  BY DEF RunInv, InOrder
<1>2. approved = Planned(g, n + 1)
  BY <1>1, PlanIsNext DEF RunInv
<1>3. approved.tool \in Tools
  BY <1>2 DEF Planned, Use, Tools
<1>4. ASSUME approved.tool = "ask_next_person"
      PROVE  approved.duty \in Duties
  <2>1. n + 1 # 1 /\ approved.duty = g[(n + 1) \div 2]
    BY <1>2, <1>4, PlannedTools
  <2>2. n + 1 \in Nat /\ n + 1 >= 2 /\ n + 1 <= 2 * m + 2
    BY <1>1, <2>1
  <2>3. n + 1 # 2 * m + 2
    BY <1>1, <1>2, <1>4, PlannedTools
  <2>4. (n + 1) \div 2 \in 1 .. m
    BY <1>1, <2>2, <2>3, Halves
  <2> QED
    BY <1>1, <2>1, <2>4
<1> QED
  BY <1>3, <1>4

LEMMA Noted ==
  ASSUME NEW k, k[1] # "assign", NEW class, NEW rule, NEW d, NEW p, now' = now,
         receipts' = Record(k, Receipt(class, rule, "blocked", d, p))
  PROVE  NotesOther
<1>1. /\ Receipt(class, rule, "blocked", d, p).at = now
      /\ Telling(Receipt(class, rule, "blocked", d, p))
  BY DEF Receipt, Telling
<1> QED
  BY <1>1 DEF NotesOther

LEMMA RefusalsNoted ==
  ASSUME NEW d, NEW chosen, NoteRefusal(d, chosen), now' = now
  PROVE  NotesOther
<1>1. CASE UNCHANGED receipts
  BY <1>1 DEF NotesOther
<1>2. ASSUME NEW p,
             receipts' = Record(<<"blocked_send", d, p>>,
                                Receipt("send", Rule(Asking("send", d, p)), "blocked", d, p))
      PROVE  NotesOther
  <2>1. <<"blocked_send", d, p>>[1] # "assign"
    OBVIOUS
  <2> QED
    BY <1>2, <2>1, Noted
<1> QED
  BY <1>1, <1>2 DEF NoteRefusal

LEMMA AskingNoted ==
  ASSUME NEW d \in Duties, AskNextPerson(d)
  PROVE  Next /\ NotesOther /\ UNCHANGED <<person, holder, confirmedAt>>
<1>1. AskOnRequest(d, Chosen(d)) /\ NoteRefusal(d, Chosen(d))
  BY DEF AskNextPerson, AskAndNote
<1>2. now' = now /\ UNCHANGED <<person, holder, confirmedAt>>
  BY <1>1 DEF AskOnRequest
<1>3. NotesOther
  BY <1>1, <1>2, RefusalsNoted
<1>4. Next
  BY <1>1 DEF Next
<1> QED
  BY <1>2, <1>3, <1>4

(* A withdrawal is refused or replayed, which leaves the roster alone, or   *)
(* performed.                                                               *)
LEMMA WithdrawalSteps ==
  ASSUME NEW d \in Duties, NEW p \in People, NEW w \in Words, RecordWithdrawal(d, p, w)
  PROVE  PerformWithdrawal(d, p, w) \/ (UNCHANGED vars /\ NotesOther)
<1>1. CASE RefuseWithdrawal(d, p, w)
  <2>1. WithdrawKey(d, p, w)[1] # "assign"
    BY DEF WithdrawKey
  <2>2. now' = now /\ UNCHANGED vars
    BY <1>1 DEF RefuseWithdrawal, vars, rosterVars
  <2> QED
    BY <1>1, <2>1, <2>2, Noted DEF RefuseWithdrawal
<1>2. CASE ReplayWithdrawal(d, p, w)
  BY <1>2 DEF ReplayWithdrawal, NotesOther
<1> QED
  BY <1>1, <1>2 DEF RecordWithdrawal

(* A step of the office puts somebody on a duty, takes somebody off, reads  *)
(* a sheet, or leaves people and holders alone.                             *)
Quiet == [Next]_vars /\ NotesOther /\ UNCHANGED <<person, holder, confirmedAt>>

Moves ==
  \/ \E d \in Duties, p \in People : Assign(d, p)
  \/ \E d \in Duties, p \in People, w \in Words : PerformWithdrawal(d, p, w)
  \/ \E rows \in PeopleSheets : ImportPeople(rows)
  \/ \E rows \in DutySheets : ImportDuties(rows)
  \/ CloseLapsed
  \/ Quiet

LEMMA StillIsQuiet ==
  ASSUME UNCHANGED vars, NotesOther
  PROVE  Quiet
BY DEF Quiet, vars, rosterVars

LEMMA DeskMoves ==
  ASSUME TypeOK, DeskNext
  PROVE  Moves
<1>1. CASE StartSweep /\ UNCHANGED receipts
  BY <1>1 DEF StartSweep, Expired, Next, NotesOther, Quiet, Moves
<1>2. CASE queue # <<>> /\ AdvanceAndNote(Head(queue), Chosen(Head(queue)))
  <2>1. AdvanceSweep(Chosen(Head(queue))) /\ NoteRefusal(Head(queue), Chosen(Head(queue)))
    BY <1>2 DEF AdvanceAndNote
  <2>2. now' = now /\ UNCHANGED <<person, holder, confirmedAt>>
    BY <2>1 DEF AdvanceSweep
  <2>3. NotesOther
    BY <2>1, <2>2, RefusalsNoted
  <2> QED
    BY <2>1, <2>2, <2>3 DEF Next, Quiet, Moves
<1>3. CASE Tick /\ UNCHANGED <<receipts, jobs>>
  BY <1>3 DEF Tick, Next, NotesOther, Quiet, Moves
<1>4. CASE (\E g \in Revocable : ToggleGrant(g)) /\ UNCHANGED receipts
  BY <1>4 DEF ToggleGrant, Next, NotesOther, Quiet, Moves
<1>5. ASSUME NEW d \in Duties, NEW p \in People, Answer(d, p)
      PROVE  Moves
  <2>1. /\ UNCHANGED <<person, holder, confirmedAt, receipts>>
        /\ Accept(d, p) \/ \E accept \in BOOLEAN : Decline(d, p, accept)
    BY <1>5 DEF Answer, Accept, Decline
  <2>2. Next
    BY <2>1 DEF Next
  <2> QED
    BY <2>1, <2>2 DEF NotesOther, Quiet, Moves
<1>6. ASSUME NEW d \in Duties, NEW p \in People, Assign(d, p)
      PROVE  Moves
  BY <1>6 DEF Moves
<1>7. ASSUME NEW d \in Duties, NEW p \in People, NEW w \in Words, RecordWithdrawal(d, p, w)
      PROVE  Moves
  BY <1>7, WithdrawalSteps, StillIsQuiet DEF Moves
<1> QED
  BY <1>1, <1>2, <1>3, <1>4, <1>5, <1>6, <1>7 DEF DeskNext, Sweep

(* What the phrases read is about the sender, and is what was first named.  *)
PlainMail ==
  mail # None /\ mail.next # None /\ mail.reader # "model" =>
    mail.next = mail.named /\ mail.next.person = mail.from

LEMMA ToolCallsAre ==
  ASSUME NEW call \in ToolCalls
  PROVE  \/ /\ call \in Withdrawals /\ call.tool = "record_withdrawal"
            /\ call.duty \in Duties /\ call.person \in People /\ call.words \in Words
         \/ call.tool = "ask_next_person" /\ call.duty \in Duties /\ call \notin Withdrawals
         \/ call.tool = "expire_lapsed_asks" /\ call \notin Withdrawals
<1>1. \A w \in Withdrawals :
        /\ w.tool = "record_withdrawal"
        /\ w.duty \in Duties /\ w.person \in People /\ w.words \in Words
  BY DEF Withdrawals, Withdrawal
<1>2. CASE call \in Withdrawals
  BY <1>1, <1>2
<1>3. CASE call \notin Withdrawals
  <2>1. (\E d \in Duties : call = NextAsk(d)) \/ call = Closing
    BY <1>3 DEF ToolCalls
  <2> QED
    BY <1>3, <2>1 DEF NextAsk, Closing
<1> QED
  BY <1>2, <1>3

(* A message is acted on by one call, which is one of the tools'.           *)
LEMMA MailActs ==
  ASSUME MailTypeOK, PlainMail, ActOnPhrases \/ RunModelCall
  PROVE  /\ mail # None /\ mail.next \in ToolCalls
         /\ RunCall(mail.next)
         /\ ActOnPhrases => /\ mail.next \in Withdrawals /\ mail.next = mail.named
                            /\ mail.next.person = mail.from
<1>1. /\ mail \in Mail /\ mail # None /\ mail.next # None
      /\ mail.next \in ToolCalls /\ mail.named \in Withdrawals \cup {None}
  BY DEF ActOnPhrases, RunModelCall, MailTypeOK, Mail
<1>2. CASE ActOnPhrases
  <2>1. mail.reader # "model" /\ mail.next = mail.named /\ mail.next.person = mail.from
    BY <1>1, <1>2 DEF ActOnPhrases, PlainMail
  <2>2. mail.next \in Withdrawals
    BY <1>1, <2>1
  <2>3. mail.next.tool = "record_withdrawal"
    BY <1>1, <2>2, ToolCallsAre
  <2> QED
    BY <1>1, <1>2, <2>1, <2>2, <2>3 DEF ActOnPhrases, RunCall
<1>3. CASE RunModelCall
  <2>1. ~ActOnPhrases /\ RunCall(mail.next)
    BY <1>3 DEF RunModelCall, ActOnPhrases
  <2> QED
    BY <1>1, <2>1
<1> QED
  BY <1>2, <1>3

LEMMA CallMoves ==
  ASSUME NEW call \in ToolCalls, RunCall(call)
  PROVE  Moves
<1>1. CASE call.tool = "record_withdrawal"
  <2>1. call.duty \in Duties /\ call.person \in People /\ call.words \in Words
    BY <1>1, ToolCallsAre
  <2>2. RecordWithdrawal(call.duty, call.person, call.words)
    BY <1>1 DEF RunCall
  <2> QED
    BY <2>1, <2>2, WithdrawalSteps, StillIsQuiet DEF Moves
<1>2. CASE call.tool = "ask_next_person"
  <2>1. call.duty \in Duties /\ AskNextPerson(call.duty)
    BY <1>2, ToolCallsAre DEF RunCall
  <2> QED
    BY <2>1, AskingNoted DEF Quiet, Moves
<1>3. CASE call.tool = "expire_lapsed_asks"
  BY <1>3 DEF RunCall, Moves
<1> QED
  BY <1>1, <1>2, <1>3, ToolCallsAre

LEMMA MailMoves ==
  ASSUME MailTypeOK, PlainMail, MailNext
  PROVE  Moves
<1>1. ASSUME UNCHANGED <<vars, receipts>>
      PROVE  Moves
  BY <1>1, StillIsQuiet DEF NotesOther, Moves
<1>2. CASE ActOnPhrases \/ RunModelCall
  BY <1>2, MailActs, CallMoves
<1>3. ASSUME NEW call \in ToolCalls, CancelModel(call)
      PROVE  Moves
  <2>1. /\ UNCHANGED vars
        /\ CancelCall(Use(call.tool, call.duty), call.person, <<"mail", jobs, mail.calls>>)
    BY <1>3 DEF CancelModel
  <2>2. now' = now
    BY <2>1 DEF vars, rosterVars
  <2>3. NotesOther
    BY <2>1, <2>2, Noted DEF CancelCall
  <2> QED
    BY <2>1, <2>3, StillIsQuiet DEF Moves
<1>4. ASSUME NEW call \in ToolCalls, CallTool(call)
      PROVE  Moves
  BY <1>1, <1>4 DEF CallTool, deskVars
<1>5. CASE Receive \/ ReadPhrases \/ Escalate \/ EndModel
  BY <1>1, <1>5 DEF Receive, ReadPhrases, Escalate, EndModel, deskVars
<1> QED
  BY <1>2, <1>3, <1>4, <1>5 DEF MailNext

LEMMA OfficeMoves ==
  ASSUME OfficeTypeOK, RunInv, PlainMail, [OfficeNext]_officeVars
  PROVE  Moves
<1>0. TypeOK
  BY DEF OfficeTypeOK
<1>1. CASE UNCHANGED <<vars, receipts>>
  BY <1>1, StillIsQuiet DEF NotesOther, Moves
<1>2. CASE DeskNext
  BY <1>0, <1>2, DeskMoves
<1>3. CASE AgentNext
  <2>1. CASE RefuseUse
    <3>1. UNCHANGED vars /\ CancelCall(Plan(history), None, <<"plan", Len(history) + 1>>)
      BY <2>1 DEF RefuseUse
    <3>2. now' = now
      BY <3>1 DEF vars, rosterVars
    <3>3. NotesOther
      BY <3>1, <3>2, Noted DEF CancelCall
    <3> QED
      BY <3>1, <3>3, StillIsQuiet DEF Moves
  <2>2. CASE RunTool
    <3>1. CASE approved.tool = "ask_next_person"
      <4>1. approved.duty \in Duties /\ AskNextPerson(approved.duty)
        BY <2>2, <3>1, ApprovedCalls DEF RunTool
      <4> QED
        BY <4>1, AskingNoted DEF Quiet, Moves
    <3>2. CASE approved.tool # "ask_next_person"
      BY <1>1, <2>2, <3>2 DEF RunTool, deskVars
    <3> QED
      BY <3>1, <3>2
  <2>3. CASE StartRun \/ ApproveUse \/ EndRun
    BY <1>1, <2>3 DEF StartRun, ApproveUse, EndRun, deskVars
  <2> QED
    BY <1>3, <2>1, <2>2, <2>3 DEF AgentNext
<1>4. CASE MailNext
  BY <1>0, <1>4, MailMoves DEF OfficeTypeOK
<1>5. CASE BriefNext
  BY <1>1, <1>5 DEF BriefNext, SkipBrief, SendBrief, deskVars
<1>6. CASE ImportNext
  <2>1. CASE CloseReport \/ \E rows \in DutySheets : DryRun(rows)
    BY <1>1, <2>1 DEF CloseReport, DryRun, deskVars
  <2> QED
    BY <1>6, <2>1 DEF ImportNext, Moves
<1>7. CASE UNCHANGED officeVars
  BY <1>1, <1>7 DEF officeVars, deskVars
<1> QED
  BY <1>2, <1>3, <1>4, <1>5, <1>6, <1>7 DEF OfficeNext

-----------------------------------------------------------------------------
(* Sheets. *)

LEMMA LastRow ==
  ASSUME NEW rows \in PeopleSheets \cup DutySheets, NEW S \in SUBSET (DOMAIN rows), S # {}
  PROVE  Max(S) \in S
<1>1. Len(rows) \in Nat /\ DOMAIN rows = 1 .. Len(rows)
  BY SheetAssumption
<1>2. IsFiniteSet(S)
  <2>1. IsFiniteSet(1 .. Len(rows))
    BY <1>1, FS_Interval
  <2> QED
    BY <1>1, <2>1, FS_Subset
<1>3. S \subseteq Int
  BY <1>1
<1>4. [x \in S |-> x] \in [S -> Int]
  BY <1>3
<1>5. PICK m \in S : \A x \in S : [y \in S |-> y][x] <= [y \in S |-> y][m]
  BY <1>2, <1>4, Greatest
<1>6. \A x \in S : m >= x
  BY <1>3, <1>5
<1> QED
  BY <1>6 DEF Max

OrdersKept == \A p \in People : person[p].order = InitialPerson[p].order

LEMMA AssigneeIsSomebody ==
  ASSUME OrdersKept, NEW cell
  PROVE  Assignee(cell) \in People \cup {None}
<1> DEFINE named == {p \in People : Name[p] = cell}
<1>1. CASE named # {}
  <2>1. IsFiniteSet(named)
    BY RosterAssumption, FS_Subset
  <2>2. [p \in named |-> person[p].order] \in [named -> Int]
    BY TimedAssumption DEF OrdersKept
  <2>3. PICK m \in named :
          \A x \in named :
            [p \in named |-> person[p].order][x] <= [p \in named |-> person[p].order][m]
    BY <1>1, <2>1, <2>2, Greatest
  <2>4. \A x \in named : person[x].order <= person[m].order
    BY <2>3
  <2>5. (CHOOSE p \in named : \A q \in named : person[q].order <= person[p].order) \in named
    BY <2>4
  <2> QED
    BY <1>1, <2>5 DEF Assignee
<1>2. CASE named = {}
  BY <1>2 DEF Assignee
<1> QED
  BY <1>1, <1>2

(* Somebody read from a sheet: the last row about them.                     *)
LEMMA PeopleRead ==
  ASSUME NEW rows \in PeopleSheets, NEW p \in People
  PROVE  \/ PeopleAfter(rows)[p] = person[p]
         \/ \E i \in DOMAIN rows \ PeopleProblems(rows) :
              rows[i].email = p /\ PeopleAfter(rows)[p] = PersonFrom(rows[i])
<1> DEFINE read == DOMAIN rows \ PeopleProblems(rows)
           mine == RowsOf(rows, read, p)
<1>1. PeopleAfter(rows)[p] = IF mine = {} THEN person[p] ELSE PersonFrom(rows[Max(mine)])
  BY DEF PeopleAfter
<1>2. mine \subseteq read /\ mine \subseteq DOMAIN rows /\ \A i \in mine : rows[i].email = p
  BY DEF RowsOf
<1>3. mine # {} => Max(mine) \in mine
  BY <1>2, LastRow
<1> QED
  BY <1>1, <1>2, <1>3

LEMMA PeopleSheetKeeps ==
  ASSUME TypeOK, OrdersKept, NEW rows \in PeopleSheets, ImportPeople(rows)
  PROVE  TypeOK' /\ OrdersKept'
<1>1. ASSUME NEW p \in People
      PROVE  /\ person'[p].active \in BOOLEAN /\ person'[p].optedIn \in BOOLEAN
             /\ person'[p].order = InitialPerson[p].order
  <2>1. person' = PeopleAfter(rows)
    BY DEF ImportPeople
  <2>2. CASE person'[p] = person[p]
    BY <2>2 DEF TypeOK, OrdersKept
  <2>3. ASSUME NEW i \in DOMAIN rows, rows[i].email = p, person'[p] = PersonFrom(rows[i])
        PROVE  /\ person'[p].active \in BOOLEAN /\ person'[p].optedIn \in BOOLEAN
               /\ person'[p].order = InitialPerson[p].order
    <3>1. /\ person'[p].active = Boolish(rows[i].active, TRUE)
          /\ person'[p].optedIn = Boolish(rows[i].optedIn, FALSE)
          /\ person'[p].order = person[p].order
      BY <2>3 DEF PersonFrom
    <3>2. /\ Boolish(rows[i].active, TRUE) \in BOOLEAN
          /\ Boolish(rows[i].optedIn, FALSE) \in BOOLEAN
      BY DEF Boolish
    <3> QED
      BY <3>1, <3>2 DEF OrdersKept
  <2> QED
    BY <2>1, <2>2, <2>3, PeopleRead
<1>2. UNCHANGED <<now, holder, confirmedAt, ask, gone, grants, queue, answering>>
  BY DEF ImportPeople
<1> QED
  BY <1>1, <1>2 DEF TypeOK, OrdersKept

LEMMA DutySheetKeeps ==
  ASSUME TypeOK, OrdersKept, NEW rows \in DutySheets, ImportDuties(rows)
  PROVE  TypeOK' /\ OrdersKept'
<1>1. holder' \in [Duties -> People \cup {None}]
  <2>1. \A d \in Duties : HolderAfter(rows)[d] \in People \cup {None}
    BY AssigneeIsSomebody DEF HolderAfter, TypeOK
  <2> QED
    BY <2>1 DEF ImportDuties, HolderAfter
<1>2. confirmedAt' \in [Duties -> Nat \cup {None}]
  BY DEF ImportDuties, ConfirmedAfter, TypeOK
<1>3. UNCHANGED <<now, person, ask, gone, grants, queue, answering>>
  BY DEF ImportDuties
<1> QED
  BY <1>1, <1>2, <1>3 DEF TypeOK, OrdersKept

-----------------------------------------------------------------------------
(* The inductive invariant. *)

(* An assignment goes on record once, of an ask that was accepted.          *)
AssignedOnce ==
  \A d \in Duties, p \in People :
    /\ <<"assign", d, p>> \in DOMAIN receipts \/ answering = <<d, p>>
         => ask[<<"email", d, p>>].state = "accepted"
    /\ <<"assign", d, p>> \in DOMAIN receipts => answering # <<d, p>>

OfficeInv ==
  /\ OfficeTypeOK /\ OrdersKept
  /\ RunInv /\ PlainMail
  /\ ReceiptsSay /\ AssignedOnce
  /\ ConfirmedByAnswer
  /\ NothingBetweenBriefs
  /\ NoRowLost

LEMMA MovesKeepTypes ==
  ASSUME TypeOK, OrdersKept, Moves
  PROVE  TypeOK' /\ OrdersKept'
<1>1. ASSUME Next \/ UNCHANGED vars, UNCHANGED person
      PROVE  TypeOK' /\ OrdersKept'
  BY <1>1, NextTypes DEF OrdersKept
<1>2. ASSUME NEW d \in Duties, NEW p \in People, Assign(d, p)
      PROVE  TypeOK' /\ OrdersKept'
  BY <1>1, <1>2 DEF Assign, WriteAssignment, Next
<1>3. ASSUME NEW d \in Duties, NEW p \in People, NEW w \in Words, PerformWithdrawal(d, p, w)
      PROVE  TypeOK' /\ OrdersKept'
  <2>1. Withdraw(d, p)
    BY <1>3 DEF PerformWithdrawal
  <2> QED
    BY <1>1, <2>1 DEF Withdraw, Next
<1>4. CASE Quiet
  BY <1>1, <1>4 DEF Quiet
<1>5. CASE CloseLapsed
  <2>1. ask' = Expired /\ UNCHANGED <<now, person, holder, confirmedAt, gone, grants, queue,
                                      answering>>
    BY <1>5 DEF CloseLapsed
  <2>2. ask' \in [AskIds -> [state : AskStates, sent : Nat, expires : Int]]
    BY <2>1, LapsingCloses DEF TypeOK, ClosesRows
  <2> QED
    BY <2>1, <2>2 DEF TypeOK, OrdersKept
<1> QED
  BY <1>2, <1>3, <1>4, <1>5, PeopleSheetKeeps, DutySheetKeeps DEF Moves

LEMMA ReceiptMoves ==
  ASSUME TypeOK, Moves
  PROVE  \/ NotesOther
         \/ \E d \in Duties, p \in People :
              /\ Assign(d, p) /\ now' = now
              /\ \E r : receipts' = Record(<<"assign", d, p>>, r) /\ r.at = now /\ Telling(r)
<1>1. ASSUME NEW d \in Duties, NEW p \in People, Assign(d, p)
      PROVE  /\ now' = now
             /\ \E r : receipts' = Record(<<"assign", d, p>>, r) /\ r.at = now /\ Telling(r)
  <2>1. now' = now
    BY <1>1 DEF Assign, WriteAssignment
  <2>2. PICK result \in {"verified", "blocked"} :
          receipts' = Record(<<"assign", d, p>>,
                             Receipt("write", Rule(Assigning(d, p)), result, d, p))
    BY <1>1 DEF Assign
  <2>3. /\ Receipt("write", Rule(Assigning(d, p)), result, d, p).at = now
        /\ Telling(Receipt("write", Rule(Assigning(d, p)), result, d, p))
    BY DEF Receipt, Telling
  <2> QED
    BY <2>1, <2>2, <2>3
<1>2. ASSUME NEW d \in Duties, NEW p \in People, NEW w \in Words, PerformWithdrawal(d, p, w)
      PROVE  NotesOther
  <2>1. PICK rule : receipts' = Record(WithdrawKey(d, p, w),
                                       Receipt("write", rule, "verified", d, p))
    BY <1>2 DEF PerformWithdrawal
  <2>2. /\ Receipt("write", rule, "verified", d, p).at = now
        /\ Telling(Receipt("write", rule, "verified", d, p))
    BY DEF Receipt, Telling
  <2>3. WithdrawKey(d, p, w)[1] # "assign" /\ now' = now
    BY <1>2 DEF WithdrawKey, PerformWithdrawal, Withdraw
  <2> QED
    BY <2>1, <2>2, <2>3 DEF NotesOther
<1>3. ASSUME UNCHANGED receipts
      PROVE  NotesOther
  BY <1>3 DEF NotesOther
<1> QED
  BY <1>1, <1>2, <1>3 DEF Moves, Quiet, ImportPeople, ImportDuties, CloseLapsed

LEMMA BookGrows ==
  ASSUME TypeOK, Moves
  PROVE  /\ DOMAIN receipts \subseteq DOMAIN receipts'
         /\ \A k \in DOMAIN receipts : receipts'[k] = receipts[k]
         /\ \A k \in DOMAIN receipts' \ DOMAIN receipts :
              /\ now' = now /\ receipts'[k].at = now /\ Telling(receipts'[k])
              /\ \A d \in Duties, p \in People : k = <<"assign", d, p>> => Assign(d, p)
<1>1. ASSUME NEW k, NEW r, receipts' = Record(k, r), r.at = now, Telling(r), now' = now,
             \A d \in Duties, p \in People : k = <<"assign", d, p>> => Assign(d, p)
      PROVE  /\ DOMAIN receipts \subseteq DOMAIN receipts'
             /\ \A j \in DOMAIN receipts : receipts'[j] = receipts[j]
             /\ \A j \in DOMAIN receipts' \ DOMAIN receipts :
                  /\ now' = now /\ receipts'[j].at = now /\ Telling(receipts'[j])
                  /\ \A d \in Duties, p \in People : j = <<"assign", d, p>> => Assign(d, p)
  <2>1. \A j \in DOMAIN receipts' \ DOMAIN receipts : j = k /\ receipts'[j] = r
    BY <1>1, Recorded
  <2> QED
    BY <1>1, <2>1, Recorded
<1>2. CASE NotesOther
  <2>1. CASE receipts' = receipts
    BY <2>1
  <2>2. ASSUME NEW k, NEW r, receipts' = Record(k, r), k[1] # "assign",
               r.at = now, now' = now, Telling(r)
        PROVE  /\ DOMAIN receipts \subseteq DOMAIN receipts'
               /\ \A j \in DOMAIN receipts : receipts'[j] = receipts[j]
               /\ \A j \in DOMAIN receipts' \ DOMAIN receipts :
                    /\ now' = now /\ receipts'[j].at = now /\ Telling(receipts'[j])
                    /\ \A d \in Duties, p \in People : j = <<"assign", d, p>> => Assign(d, p)
    <3>1. \A d \in Duties, p \in People : k # <<"assign", d, p>>
      BY <2>2
    <3> QED
      BY <1>1, <2>2, <3>1
  <2> QED
    BY <1>2, <2>1, <2>2 DEF NotesOther
<1>3. ASSUME NEW d \in Duties, NEW p \in People, Assign(d, p), now' = now,
             NEW r, receipts' = Record(<<"assign", d, p>>, r), r.at = now, Telling(r)
      PROVE  /\ DOMAIN receipts \subseteq DOMAIN receipts'
             /\ \A j \in DOMAIN receipts : receipts'[j] = receipts[j]
             /\ \A j \in DOMAIN receipts' \ DOMAIN receipts :
                  /\ now' = now /\ receipts'[j].at = now /\ Telling(receipts'[j])
                  /\ \A e \in Duties, q \in People : j = <<"assign", e, q>> => Assign(e, q)
  <2>1. \A e \in Duties, q \in People :
          <<"assign", d, p>> = <<"assign", e, q>> => Assign(e, q)
    BY <1>3
  <2> QED
    BY <1>1, <1>3, <2>1
<1> QED
  BY <1>2, <1>3, ReceiptMoves

(* The clock does not go back.                                              *)
LEMMA ClockMoves ==
  ASSUME TypeOK, Moves
  PROVE  now' \in Nat /\ now' >= now
<1>1. now' \in {now, now + 1}
  BY DEF Moves, Assign, WriteAssignment, PerformWithdrawal, Withdraw, ImportPeople,
     ImportDuties, CloseLapsed, Quiet, Next, StartSweep, Tick, AdvanceSweep, ToggleGrant,
     AskOnRequest, Accept, Decline, vars, rosterVars
<1> QED
  BY <1>1 DEF TypeOK

LEMMA ReceiptsKept ==
  ASSUME TypeOK, ReceiptsSay, Moves
  PROVE  ReceiptsSay'
<1>1. now \in Nat /\ now' \in Nat /\ now' >= now
  BY ClockMoves DEF TypeOK
<1>2. ASSUME NEW k \in DOMAIN receipts'
      PROVE  receipts'[k].at \in 0 .. now' /\ Telling(receipts'[k])
  <2>1. CASE k \in DOMAIN receipts
    BY <1>1, <2>1, BookGrows DEF ReceiptsSay
  <2>2. CASE k \notin DOMAIN receipts
    BY <1>1, <2>2, BookGrows
  <2> QED
    BY <2>1, <2>2
<1> QED
  BY <1>2 DEF ReceiptsSay, Telling

LEMMA AcceptedStays ==
  ASSUME TypeOK, Moves, NEW a \in AskIds, ask[a].state = "accepted"
  PROVE  ask'[a].state = "accepted"
<1>1. CASE [Next]_vars
  BY <1>1, NextKeepsRows DEF KeepsRows
<1>2. CASE ask' = ask
  BY <1>2
<1>3. CASE CloseLapsed
  <2>1. ClosesRows
    BY <1>3, LapsingCloses DEF CloseLapsed, TypeOK
  <2> QED
    BY <2>1 DEF ClosesRows
<1> QED
  BY <1>1, <1>2, <1>3 DEF Moves, Assign, WriteAssignment, PerformWithdrawal, Withdraw, Next,
     Quiet, ImportPeople, ImportDuties

(* An answer is being written from the moment it is accepted until it is.   *)
LEMMA AnswerBegins ==
  ASSUME Moves, NEW d \in Duties, NEW p \in People, answering' = <<d, p>>
  PROVE  \/ answering = <<d, p>>
         \/ answering = None /\ ask[<<"email", d, p>>].state = "sent"
            /\ ask' = [ask EXCEPT ![<<"email", d, p>>].state = "accepted"]
<1>1. CASE answering' = answering
  BY <1>1
<1>2. CASE answering' = None
  BY <1>2, RosterAssumption
<1>3. ASSUME NEW e \in Duties, NEW q \in People, Accept(e, q)
      PROVE  /\ answering = None /\ ask[<<"email", d, p>>].state = "sent"
             /\ ask' = [ask EXCEPT ![<<"email", d, p>>].state = "accepted"]
  <2>1. e = d /\ q = p
    BY <1>3 DEF Accept
  <2> QED
    BY <1>3, <2>1 DEF Accept, Idle
<1> QED
  BY <1>1, <1>2, <1>3 DEF Moves, Assign, WriteAssignment, PerformWithdrawal, Withdraw,
     ImportPeople, ImportDuties, CloseLapsed, Quiet, Next, StartSweep, Tick, AdvanceSweep,
     ToggleGrant, AskOnRequest, Decline, vars

LEMMA AssignedOnceKept ==
  ASSUME TypeOK, AssignedOnce, Moves
  PROVE  AssignedOnce'
<1>0. ASSUME NEW d \in Duties, NEW p \in People
      PROVE  <<"email", d, p>> \in AskIds
  BY DEF AskIds, Kinds
<1>1. ASSUME NEW d \in Duties, NEW p \in People, Assign(d, p)
      PROVE  answering = <<d, p>> /\ answering' = None
  BY <1>1 DEF Assign, WriteAssignment
<1>2. ASSUME NEW d \in Duties, NEW p \in People,
             <<"assign", d, p>> \in DOMAIN receipts'
      PROVE  /\ ask[<<"email", d, p>>].state = "accepted"
             /\ <<"assign", d, p>> \in DOMAIN receipts \/ Assign(d, p)
  <2>1. <<"assign", d, p>> \in DOMAIN receipts \/ Assign(d, p)
    BY <1>2, BookGrows
  <2> QED
    BY <1>1, <2>1 DEF AssignedOnce
<1>3. ASSUME NEW d \in Duties, NEW p \in People, answering' = <<d, p>>
      PROVE  ask'[<<"email", d, p>>].state = "accepted"
  <2>1. CASE answering = <<d, p>>
    BY <1>0, <2>1, AcceptedStays DEF AssignedOnce
  <2>2. CASE ask' = [ask EXCEPT ![<<"email", d, p>>].state = "accepted"]
    <3>1. ask \in [AskIds -> [state : AskStates, sent : Nat, expires : Int]]
      BY DEF TypeOK
    <3>2. ask[<<"email", d, p>>] \in [state : AskStates, sent : Nat, expires : Int]
      BY <1>0, <3>1
    <3> QED
      BY <1>0, <2>2, <3>1, <3>2
  <2> QED
    BY <1>3, <2>1, <2>2, AnswerBegins
<1>4. ASSUME NEW d \in Duties, NEW p \in People, answering' = <<d, p>>,
             <<"assign", d, p>> \in DOMAIN receipts'
      PROVE  FALSE
  <2>1. ~Assign(d, p)
    BY <1>1, <1>4, RosterAssumption
  <2>2. /\ <<"assign", d, p>> \in DOMAIN receipts
        /\ ask[<<"email", d, p>>].state = "accepted"
    BY <1>2, <1>4, <2>1
  <2>3. answering # <<d, p>>
    BY <2>2 DEF AssignedOnce
  <2> QED
    BY <1>4, <2>2, <2>3, AnswerBegins
<1>5. \A d \in Duties, p \in People :
        <<"assign", d, p>> \in DOMAIN receipts' => ask'[<<"email", d, p>>].state = "accepted"
  BY <1>0, <1>2, AcceptedStays
<1> QED
  BY <1>3, <1>4, <1>5 DEF AssignedOnce

-----------------------------------------------------------------------------
(* What a confirmation rests on. *)

Confirmed(d) ==
  \/ d \in InitiallyConfirmed /\ holder[d] = InitialHolder[d] /\ confirmedAt[d] = 0
  \/ \E k \in DOMAIN receipts :
       /\ k = <<"assign", d, holder[d]>>
       /\ receipts[k].result = "verified" /\ receipts[k].at = confirmedAt[d]

LEMMA ConfirmationHolds ==
  ASSUME TypeOK, AssignedOnce, ConfirmedByAnswer, Moves
  PROVE  ConfirmedByAnswer'
<1>1. SUFFICES ASSUME NEW d \in Duties, confirmedAt'[d] # None
               PROVE  Confirmed(d)'
  BY DEF ConfirmedByAnswer, Confirmed
<1>2. ASSUME holder'[d] = holder[d], confirmedAt'[d] = confirmedAt[d]
      PROVE  Confirmed(d)'
  <2>1. Confirmed(d)
    BY <1>1, <1>2 DEF ConfirmedByAnswer, Confirmed
  <2> QED
    BY <1>2, <2>1, BookGrows DEF Confirmed
<1>3. ASSUME NEW e \in Duties, NEW p \in People, Assign(e, p)
      PROVE  Confirmed(d)'
  <2>0. holder \in [Duties -> People \cup {None}] /\ confirmedAt \in [Duties -> Nat \cup {None}]
    BY DEF TypeOK
  <2>1. CASE ~Allowed(Assigning(e, p))
    BY <1>2, <1>3, <2>1 DEF Assign, WriteAssignment
  <2>2. CASE Allowed(Assigning(e, p)) /\ e # d
    BY <1>2, <1>3, <2>0, <2>2 DEF Assign, WriteAssignment
  <2>3. CASE Allowed(Assigning(e, p)) /\ e = d
    <3>1. holder'[d] = p /\ confirmedAt'[d] = now
      BY <1>3, <2>0, <2>3 DEF Assign, WriteAssignment
    <3>2. answering = <<d, p>>
      BY <1>3, <2>3 DEF Assign, WriteAssignment
    <3>3. <<"assign", d, p>> \notin DOMAIN receipts
      BY <3>2 DEF AssignedOnce
    <3>4. PICK rule : receipts' = Record(<<"assign", d, p>>,
                                         Receipt("write", rule, "verified", d, p))
      BY <1>3, <2>3 DEF Assign
    <3>5. /\ <<"assign", d, p>> \in DOMAIN receipts'
          /\ receipts'[<<"assign", d, p>>] = Receipt("write", rule, "verified", d, p)
      BY <3>3, <3>4, Recorded
    <3>6. /\ receipts'[<<"assign", d, p>>].result = "verified"
          /\ receipts'[<<"assign", d, p>>].at = now
      BY <3>5 DEF Receipt
    <3> QED
      BY <3>1, <3>5, <3>6 DEF Confirmed
  <2> QED
    BY <2>1, <2>2, <2>3
<1>4. ASSUME NEW e \in Duties, NEW p \in People, NEW w \in Words, PerformWithdrawal(e, p, w)
      PROVE  Confirmed(d)'
  <2>1. /\ holder' = [holder EXCEPT ![e] = None]
        /\ confirmedAt' = [confirmedAt EXCEPT ![e] = None]
    BY <1>4 DEF PerformWithdrawal, Withdraw
  <2>2. e # d
    BY <1>1, <2>1 DEF TypeOK
  <2> QED
    BY <1>2, <2>1, <2>2 DEF TypeOK
<1>5. ASSUME NEW rows \in DutySheets, ImportDuties(rows)
      PROVE  Confirmed(d)'
  BY <1>1, <1>2, <1>5 DEF ImportDuties, ConfirmedAfter, HolderAfter
<1>6. CASE UNCHANGED <<holder, confirmedAt>>
  BY <1>2, <1>6
<1> QED
  BY <1>3, <1>4, <1>5, <1>6 DEF Moves, Quiet, ImportPeople, CloseLapsed

-----------------------------------------------------------------------------
(* The brief. *)

(* Whatever went on record in the last day is in a brief sent now.          *)
LEMMA DayIsTold ==
  ASSUME ReceiptsSay, NEW k \in DOMAIN receipts, receipts[k].at >= now - Day
  PROVE  k \in Filled \cup NotAllowed
BY DEF ReceiptsSay, Telling, Filled, NotAllowed, LastDay, Window

LEMMA BriefKept ==
  ASSUME OfficeTypeOK, ReceiptsSay, NothingBetweenBriefs, Moves, [OfficeNext]_officeVars
  PROVE  BriefTypeOK' /\ NothingBetweenBriefs'
<1>0. /\ now \in Nat /\ now' \in Nat /\ now' >= now /\ Day \in Nat
      /\ told \subseteq DOMAIN receipts /\ lastBrief \in (0 .. now) \cup {None}
      /\ regular \in BOOLEAN
  BY ClockMoves, RosterAssumption DEF OfficeTypeOK, TypeOK, BriefTypeOK
<1>1. CASE UNCHANGED briefVars
  <2>1. BriefTypeOK'
    BY <1>0, <1>1, BookGrows DEF OfficeTypeOK, BriefTypeOK, briefVars
  <2>2. ASSUME regular', lastBrief' # None,
               NEW k \in DOMAIN receipts', receipts'[k].at < lastBrief',
               receipts'[k].result \in {"blocked", "verified"}
        PROVE  k \in told'
    <3>1. lastBrief \in 0 .. now /\ lastBrief' = lastBrief /\ told' = told /\ regular
      BY <1>0, <1>1, <2>2 DEF briefVars
    <3>2. k \in DOMAIN receipts
      <4>1. CASE k \notin DOMAIN receipts
        <5>1. receipts'[k].at = now
          BY <4>1, <2>2, BookGrows DEF OfficeTypeOK
        <5> QED
          BY <1>0, <2>2, <3>1, <5>1
      <4> QED
        BY <4>1
    <3>3. receipts'[k] = receipts[k]
      BY <3>2, BookGrows DEF OfficeTypeOK
    <3> QED
      BY <2>2, <3>1, <3>2, <3>3 DEF NothingBetweenBriefs
  <2> QED
    BY <2>1, <2>2 DEF NothingBetweenBriefs
<1>2. CASE BriefNext
  <2>1. /\ UNCHANGED <<now, receipts>> /\ lastBrief' = now
        /\ \/ told' = told
           \/ told' = told \cup Filled \cup NotAllowed
        /\ regular' \in BOOLEAN
        /\ regular' => /\ regular /\ InTime
                       /\ told' = told \cup Filled \cup NotAllowed
    <3>1. CASE SkipBrief
      <4>1. Filled = {} /\ NotAllowed = {}
        BY <3>1 DEF SkipBrief, WorthSending, NeedsHuman
      <4>2. told' = told \cup Filled \cup NotAllowed
        BY <3>1, <4>1 DEF SkipBrief
      <4>3. regular' = (regular /\ InTime)
        BY <3>1 DEF SkipBrief
      <4> QED
        BY <3>1, <4>2, <4>3 DEF SkipBrief, deskVars, vars, rosterVars
    <3>2. ASSUME NEW fate \in {"sent", "lost", "no_recipient"}, SendBrief(fate)
          PROVE  /\ UNCHANGED <<now, receipts>> /\ lastBrief' = now
                 /\ \/ told' = told
                    \/ told' = told \cup Filled \cup NotAllowed
                 /\ regular' \in BOOLEAN
                 /\ regular' => /\ regular /\ InTime
                                /\ told' = told \cup Filled \cup NotAllowed
      <4>1. /\ told' = IF fate = "sent" THEN told \cup Filled \cup NotAllowed ELSE told
            /\ regular' = (regular /\ InTime /\ fate = "sent")
        BY <3>2 DEF SendBrief
      <4> QED
        BY <3>2, <4>1 DEF SendBrief, deskVars, vars, rosterVars
    <3> QED
      BY <1>2, <3>1, <3>2 DEF BriefNext
  <2>2. BriefTypeOK'
    <3>1. Filled \subseteq DOMAIN receipts /\ NotAllowed \subseteq DOMAIN receipts
      BY DEF Filled, NotAllowed, LastDay, Window
    <3> QED
      BY <1>0, <2>1, <3>1 DEF BriefTypeOK
  <2>3. ASSUME regular', NEW k \in DOMAIN receipts, receipts[k].at < now,
               receipts[k].result \in {"blocked", "verified"}
        PROVE  k \in told'
    <3>0. receipts[k].at \in 0 .. now /\ told' = told \cup Filled \cup NotAllowed
      BY <2>1, <2>3 DEF ReceiptsSay
    <3>1. CASE lastBrief # None /\ receipts[k].at < lastBrief
      BY <2>1, <2>3, <3>0, <3>1 DEF NothingBetweenBriefs
    <3>2. CASE ~(lastBrief # None /\ receipts[k].at < lastBrief)
      <4>1. receipts[k].at >= now - Day
        BY <1>0, <2>1, <2>3, <3>0, <3>2 DEF InTime
      <4> QED
        BY <3>0, <4>1, DayIsTold
    <3> QED
      BY <3>1, <3>2
  <2>4. NothingBetweenBriefs'
    BY <2>1, <2>3 DEF NothingBetweenBriefs
  <2> QED
    BY <2>2, <2>4
<1> QED
  BY <1>1, <1>2 DEF OfficeNext, officeVars

-----------------------------------------------------------------------------
(* The report of an import. *)

LEMMA PeopleSheetIsRead ==
  ASSUME NEW rows \in PeopleSheets, ImportPeople(rows)
  PROVE  NoRowLost'
<1>1. /\ report'.people = rows /\ report'.problems = PeopleProblems(rows)
      /\ person' = PeopleAfter(rows)
  BY DEF ImportPeople, NoReport
<1>2. ASSUME NEW i \in DOMAIN rows \ PeopleProblems(rows)
      PROVE  /\ person'[rows[i].email].quals = rows[i].quals
             /\ person'[rows[i].email].optedIn <=> rows[i].optedIn = "yes"
  <2> DEFINE read == DOMAIN rows \ PeopleProblems(rows)
             p == rows[i].email
  <2>1. \A j \in read : Readable(rows[j])
    BY DEF PeopleProblems
  <2>2. p \in People
    BY <2>1 DEF Readable
  <2>3. RowsOf(rows, read, p) = {i}
    <3>1. ASSUME NEW j \in read, rows[j].email = p
          PROVE  j = i
      <4>1. i \in Nat /\ j \in Nat /\ i >= 1 /\ j >= 1
        BY SheetAssumption
      <4>2. ~(j \in 1 .. (i - 1)) /\ ~(i \in 1 .. (j - 1))
        BY <2>1, <3>1 DEF PeopleProblems
      <4> QED
        BY <4>1, <4>2
    <3> QED
      BY <3>1 DEF RowsOf
  <2>4. Max({i}) = i
    <3>1. Max({i}) \in {i}
      BY LastRow
    <3> QED
      BY <3>1
  <2>5. person'[p] = PersonFrom(rows[i])
    BY <1>1, <2>2, <2>3, <2>4 DEF PeopleAfter
  <2>6. Boolish(rows[i].optedIn, FALSE) <=> rows[i].optedIn = "yes"
    BY DEF Boolish
  <2>7. /\ PersonFrom(rows[i]).quals = rows[i].quals
        /\ PersonFrom(rows[i]).optedIn = Boolish(rows[i].optedIn, FALSE)
    BY DEF PersonFrom
  <2>8. person'[rows[i].email] = PersonFrom(rows[i])
    BY <2>5
  <2>9. person'[rows[i].email].optedIn = Boolish(rows[i].optedIn, FALSE)
    BY <2>7, <2>8
  <2> HIDE DEF p
  <2> QED
    BY <2>6, <2>7, <2>8, <2>9, Zenon
<1> QED
  BY <1>1, <1>2 DEF NoRowLost

LEMMA ReportKept ==
  ASSUME ImportTypeOK, NoRowLost, Moves, [OfficeNext]_officeVars
  PROVE  ImportTypeOK' /\ NoRowLost'
<1>1. ASSUME NEW rows \in PeopleSheets, ImportPeople(rows)
      PROVE  ImportTypeOK' /\ NoRowLost'
  <2>1. /\ report'.people = rows /\ report'.duties = <<>>
        /\ report'.problems = PeopleProblems(rows)
    BY <1>1 DEF ImportPeople, NoReport
  <2>2. PeopleProblems(rows) \subseteq DOMAIN rows
    BY DEF PeopleProblems
  <2> QED
    BY <1>1, <2>1, <2>2, PeopleSheetIsRead DEF ImportTypeOK
<1>2. ASSUME report'.people = <<>>, report'.problems \subseteq DOMAIN report'.duties
      PROVE  ImportTypeOK' /\ NoRowLost'
  <2>1. DOMAIN report'.people = {}
    BY <1>2
  <2> QED
    BY <1>2, <2>1 DEF ImportTypeOK, NoRowLost
<1>3. CASE UNCHANGED <<report, person>>
  BY <1>3 DEF ImportTypeOK, NoRowLost
<1>4. CASE CloseReport
  BY <1>2, <1>4 DEF CloseReport, NoReport
<1>5. ASSUME NEW rows \in DutySheets, ImportDuties(rows) \/ DryRun(rows)
      PROVE  ImportTypeOK' /\ NoRowLost'
  <2>1. /\ report'.people = <<>> /\ report'.duties = rows
        /\ report'.problems = DutyProblems(rows)
    BY <1>5 DEF ImportDuties, DryRun, NoReport
  <2>2. DutyProblems(rows) \subseteq DOMAIN rows
    BY DEF DutyProblems, Unplaced, Unmatched
  <2> QED
    BY <1>2, <2>1, <2>2
<1>6. CASE UNCHANGED report
  BY <1>1, <1>3, <1>6 DEF Moves, Assign, WriteAssignment, PerformWithdrawal, Withdraw,
     ImportDuties, CloseLapsed, Quiet
<1> QED
  BY <1>1, <1>4, <1>5, <1>6 DEF OfficeNext, ImportNext, officeVars, importVars

-----------------------------------------------------------------------------
(* The run and the message. *)

LEMMA EmptyRun == InOrder(<<>>)
<1>1. GapsFrom(<<>>) = <<>>
  BY DEF GapsFrom
<1>2. /\ Len(<<>>) = 0 /\ <<>> \in Seq(Calls) /\ <<>> \in Seq(Duties)
      /\ DOMAIN <<>> = {}
  OBVIOUS
<1>3. Distinct(<<>>)
  BY DEF Distinct
<1>4. Len(<<>>) <= 2 * Len(<<>>) + 2
  BY <1>2
<1>5. PICK none : none = <<>>
  OBVIOUS
<1>6. \A i \in DOMAIN none : none[i].tool = Planned(none, i).tool
                               /\ none[i].duty = Planned(none, i).duty
  BY <1>2, <1>5
<1>7. InOrder(none)
  BY <1>1, <1>2, <1>3, <1>4, <1>5, <1>6 DEF InOrder
<1> QED
  BY <1>5, <1>7

(* As long as the plan names a tool, the run is not at its end.             *)
LEMMA StillPlanning ==
  ASSUME RunInv, Planning
  PROVE  Len(history) # 2 * Len(GapsFrom(history)) + 2 /\ Plan(history).tool \in Tools
<1>1. PICK g : g = GapsFrom(history)
  OBVIOUS
<1>2. Plan(history) = IF Len(history) = 2 * Len(g) + 2 THEN Use("say", None)
                      ELSE Planned(g, Len(history) + 1)
  BY <1>1, PlanIsNext DEF RunInv
<1>3. Plan(history).tool # "say"
  BY DEF Planning
<1>4. Len(history) # 2 * Len(g) + 2
  BY <1>2, <1>3 DEF Use
<1> QED
  BY <1>1, <1>2, <1>4 DEF Planned, Use, Tools

LEMMA NoGaps == <<>> \in Seq(Duties) /\ Distinct(<<>>)
BY DEF Distinct

LEMMA RunKept ==
  ASSUME AgentTypeOK, RunInv, [OfficeNext]_officeVars
  PROVE  AgentTypeOK' /\ RunInv'
<1>0. InOrder(history)
  BY DEF RunInv
<1>1. ASSUME InOrder(history)', running' \in BOOLEAN, running' \/ history' = <<>>,
             approved' = None
      PROVE  AgentTypeOK' /\ RunInv'
  <2>1. \A i \in DOMAIN history' : history'[i].refused \in {None} \cup Refusals
    <3>1. history' \in Seq(Calls)
      BY <1>1 DEF InOrder
    <3>2. \A i \in DOMAIN history' : history'[i] \in Calls
      BY <3>1
    <3> QED
      BY <3>2 DEF Calls
  <2> QED
    BY <1>1, <2>1 DEF AgentTypeOK, RunInv
<1>2. CASE StartRun
  <2>1. approved' = None /\ history' = <<>> /\ running' = TRUE
    BY <1>2 DEF StartRun, AgentTypeOK
  <2> QED
    BY <1>1, <2>1, EmptyRun
<1>3. CASE EndRun
  <2>1. approved' = None /\ history' = <<>> /\ running' = FALSE
    BY <1>3 DEF EndRun
  <2> QED
    BY <1>1, <2>1, EmptyRun
<1>4. CASE ApproveUse
  <2>1. /\ approved' = Plan(history) /\ history' = history /\ running' = running /\ running
        /\ Planning
    BY <1>4 DEF ApproveUse, Planning
  <2>2. Len(history) # 2 * Len(GapsFrom(history)) + 2
    BY <2>1, StillPlanning
  <2> QED
    BY <2>1, <2>2 DEF AgentTypeOK, RunInv
<1>5. CASE RefuseUse
  <2> DEFINE use == Plan(history)
  <2>1. /\ Planning /\ ~HookAllows(use.tool) /\ running' = running /\ running
        /\ approved' = None
        /\ history' = Append(history, Call(use, HookRule(use, None), <<>>))
    BY <1>5 DEF RefuseUse, Planning
  <2>2. Len(history) # 2 * Len(GapsFrom(history)) + 2 /\ use.tool \in Tools
    BY <2>1, StillPlanning
  <2>3. HookRule(use, None) \in Refusals
    <3>1. Required(use.tool) \in {"send", "write"} /\ ~Granted(Required(use.tool))
      BY <2>1, <2>2, HookCancels
    <3>2. Asking(Required(use.tool), use.duty, None).class = Required(use.tool)
      BY DEF Asking
    <3>3. HookRule(use, None) = "R3-none"
      BY <3>1, <3>2, NothingGranted DEF HookRule
    <3> QED
      BY <3>3 DEF Refusals
  <2>4. InOrder(history)'
    BY <1>0, <2>1, <2>2, <2>3, OrderKept, NoGaps
  <2>5. running' \in BOOLEAN /\ running'
    BY <2>1 DEF AgentTypeOK
  <2> QED
    BY <1>1, <2>1, <2>4, <2>5
<1>6. CASE RunTool
  <2> DEFINE found == IF approved.tool = "list_gaps" THEN Gaps(PlanHorizon) ELSE <<>>
  <2>1. /\ approved # None /\ approved' = None /\ running' = running
        /\ history' = Append(history, Call(approved, None, found))
    BY <1>6 DEF RunTool
  <2>2. /\ approved = Plan(history) /\ Len(history) # 2 * Len(GapsFrom(history)) + 2
        /\ running /\ running \in BOOLEAN
    BY <2>1 DEF RunInv, AgentTypeOK
  <2>3. found \in Seq(Duties) /\ Distinct(found)
    BY NoGaps, GapsAreDistinct
  <2> HIDE DEF found
  <2>4. InOrder(history)'
    BY <1>0, <2>1, <2>2, <2>3, OrderKept
  <2> QED
    BY <1>1, <2>1, <2>2, <2>4
<1>7. CASE UNCHANGED agentVars
  BY <1>7 DEF AgentTypeOK, RunInv, agentVars
<1>8. CASE MailNext
  BY <1>7, <1>8 DEF MailNext, Receive, ReadPhrases, Escalate, ActOnPhrases, CallTool,
     CancelModel, RunModelCall, EndModel, Done
<1> QED
  BY <1>2, <1>3, <1>4, <1>5, <1>6, <1>7, <1>8 DEF OfficeNext, AgentNext, officeVars

LEMMA MailKept ==
  ASSUME MailTypeOK, PlainMail, [OfficeNext]_officeVars
  PROVE  MailTypeOK' /\ PlainMail'
<1>0. mail # None =>
        /\ mail \in Mail /\ mail.from \in People /\ mail.reader \in Readers
        /\ mail.words \in Words /\ mail.next \in ToolCalls \cup {None}
        /\ mail.named \in Withdrawals \cup {None} /\ mail.calls \in 0 .. MaxCalls
  BY DEF MailTypeOK, Mail
<1>1. CASE Receive
  <2>1. PICK p \in People, r \in Readers, w \in Words :
          mail' = [from |-> p, reader |-> r, words |-> w,
                   next |-> None, named |-> None, calls |-> 0]
    BY <1>1 DEF Receive
  <2>2. mail' \in Mail /\ mail'.next = None
    BY <2>1, CallsAssumption DEF Mail
  <2>3. verdict' = FALSE
    BY <1>1 DEF Receive
  <2> QED
    BY <2>2, <2>3 DEF MailTypeOK, PlainMail
<1>2. CASE ReadPhrases
  <2>1. PICK d \in SoleUpcoming(mail.from) :
          mail' = [mail EXCEPT !.next = Withdrawal(d, mail.from, mail.words),
                               !.named = Withdrawal(d, mail.from, mail.words)]
    BY <1>2 DEF ReadPhrases
  <2>2. d \in Duties
    BY <2>1 DEF SoleUpcoming, Upcoming, DutiesOf
  <2>3. mail # None /\ verdict' = verdict
    BY <1>2 DEF ReadPhrases, ReadBy
  <2>4. PICK call : call = Withdrawal(d, mail.from, mail.words)
    OBVIOUS
  <2>5. call \in Withdrawals /\ call \in ToolCalls /\ call.person = mail.from
    BY <1>0, <2>2, <2>3, <2>4 DEF Withdrawals, ToolCalls, Withdrawal
  <2>6. mail' = [mail EXCEPT !.next = call, !.named = call]
    BY <2>1, <2>4
  <2>7. mail' \in Mail /\ mail'.next = mail'.named /\ mail'.next.person = mail'.from
    BY <1>0, <2>3, <2>5, <2>6 DEF Mail
  <2> QED
    BY <2>3, <2>7 DEF MailTypeOK, PlainMail
<1>3. CASE Escalate \/ ActOnPhrases \/ EndModel
  <2>1. \A call : Handled(call) \in BOOLEAN
    BY DEF Handled
  <2>2. mail' = None /\ verdict' \in BOOLEAN
    BY <1>3, <2>1 DEF Escalate, ActOnPhrases, EndModel, Done
  <2> QED
    BY <2>2 DEF MailTypeOK, PlainMail
<1>4. ASSUME NEW call \in ToolCalls, CallTool(call) \/ CancelModel(call)
      PROVE  MailTypeOK' /\ PlainMail'
  <2>1. /\ mail # None /\ mail.reader = "model" /\ mail.next = None
        /\ mail.calls < MaxCalls /\ verdict' = verdict
        /\ \/ mail' = [mail EXCEPT !.next = call, !.named = FirstNamed(call), !.calls = @ + 1]
           \/ mail' = [mail EXCEPT !.named = FirstNamed(call), !.calls = @ + 1]
    BY <1>4 DEF CallTool, CancelModel, MayCall, ReadBy
  <2>2. FirstNamed(call) \in Withdrawals \cup {None}
    BY <1>0, <2>1 DEF FirstNamed
  <2>3. mail.calls + 1 \in 0 .. MaxCalls
    BY <1>0, <2>1, CallsAssumption
  <2>4. mail' \in Mail /\ mail'.reader = "model"
    BY <1>0, <2>1, <2>2, <2>3 DEF Mail
  <2> QED
    BY <2>1, <2>4 DEF MailTypeOK, PlainMail
<1>5. CASE RunModelCall
  <2>1. mail # None /\ mail' = [mail EXCEPT !.next = None] /\ verdict' = verdict
    BY <1>5 DEF RunModelCall
  <2>2. mail' \in Mail /\ mail'.next = None
    BY <1>0, <2>1 DEF Mail
  <2> QED
    BY <2>1, <2>2 DEF MailTypeOK, PlainMail
<1>6. CASE UNCHANGED mailVars
  BY <1>6 DEF MailTypeOK, PlainMail, mailVars
<1> QED
  BY <1>1, <1>2, <1>3, <1>4, <1>5, <1>6 DEF OfficeNext, MailNext, officeVars

-----------------------------------------------------------------------------
LEMMA OfficeStarts == OfficeInit => OfficeInv
<1> SUFFICES ASSUME OfficeInit PROVE OfficeInv
  OBVIOUS
<1>1. Init /\ receipts = <<>>
  BY DEF OfficeInit, DeskInit
<1>2. TypeOK
  BY <1>1, TimedInit DEF TimedInv
<1>3. DOMAIN receipts = {}
  BY <1>1
<1>4. /\ person = InitialPerson /\ answering = None /\ holder = InitialHolder
      /\ confirmedAt = [d \in Duties |-> IF d \in InitiallyConfirmed THEN 0 ELSE None]
  BY <1>1 DEF Init
<1>5. AgentTypeOK /\ RunInv
  <2>1. running = FALSE /\ history = <<>> /\ approved = None
    BY DEF OfficeInit, AgentInit
  <2>2. running \in BOOLEAN
    BY <2>1
  <2>3. DOMAIN history = {}
    BY <2>1
  <2>4. AgentTypeOK
    BY <2>1, <2>2, <2>3 DEF AgentTypeOK
  <2>5. RunInv
    BY <2>1, EmptyRun DEF RunInv
  <2> QED
    BY <2>4, <2>5
<1>6. MailTypeOK /\ PlainMail
  BY DEF OfficeInit, MailInit, MailTypeOK, PlainMail
<1>7. BriefTypeOK /\ NothingBetweenBriefs
  BY DEF OfficeInit, BriefInit, BriefTypeOK, NothingBetweenBriefs
<1>8. ImportTypeOK /\ NoRowLost
  <2>1. report.people = <<>> /\ report.problems = {}
    BY DEF OfficeInit, ImportInit, NoReport
  <2> QED
    BY <2>1 DEF ImportTypeOK, NoRowLost
<1>9. ReceiptsSay
  BY <1>3 DEF ReceiptsSay
<1>10. AssignedOnce
  BY <1>3, <1>4, RosterAssumption DEF AssignedOnce
<1>11. ConfirmedByAnswer
  BY <1>4 DEF ConfirmedByAnswer
<1>12. OrdersKept
  BY <1>4 DEF OrdersKept
<1> QED
  BY <1>2, <1>5, <1>6, <1>7, <1>8, <1>9, <1>10, <1>11, <1>12 DEF OfficeInv, OfficeTypeOK

LEMMA OfficeKeeps ==
  ASSUME OfficeInv, [OfficeNext]_officeVars
  PROVE  OfficeInv'
<1>1. /\ OfficeTypeOK /\ OrdersKept /\ RunInv /\ PlainMail /\ ReceiptsSay /\ AssignedOnce
      /\ ConfirmedByAnswer /\ NothingBetweenBriefs /\ NoRowLost
  BY DEF OfficeInv
<1>2. /\ TypeOK /\ AgentTypeOK /\ MailTypeOK /\ ImportTypeOK
  BY <1>1 DEF OfficeTypeOK
<1>3. Moves
  BY <1>1, OfficeMoves
<1>4. TypeOK' /\ OrdersKept'
  BY <1>1, <1>2, <1>3, MovesKeepTypes
<1>5. AgentTypeOK' /\ RunInv'
  BY <1>1, <1>2, RunKept
<1>6. MailTypeOK' /\ PlainMail'
  BY <1>1, <1>2, MailKept
<1>7. BriefTypeOK' /\ NothingBetweenBriefs'
  BY <1>1, <1>3, BriefKept
<1>8. ImportTypeOK' /\ NoRowLost'
  BY <1>1, <1>2, <1>3, ReportKept
<1>9. ReceiptsSay' /\ AssignedOnce' /\ ConfirmedByAnswer'
  BY <1>1, <1>2, <1>3, ReceiptsKept, AssignedOnceKept, ConfirmationHolds
<1> QED
  BY <1>4, <1>5, <1>6, <1>7, <1>8, <1>9 DEF OfficeInv, OfficeTypeOK

(* Of everything below, the invariant that every step of the office keeps:  *)
(* the loop, the agent, the mail, the brief and the spreadsheets work on    *)
(* one store and leave it in order for each other.                          *)
THEOREM OfficeInvariant == OfficeSpec => []OfficeInv
BY OfficeStarts, OfficeKeeps, PTL DEF OfficeSpec

(* Every variable has its type, whatever a spreadsheet names.               *)
THEOREM OfficeTypes == OfficeSpec => []OfficeTypeOK
<1>1. OfficeInv => OfficeTypeOK
  BY DEF OfficeInv
<1> QED
  BY OfficeInvariant, <1>1, PTL

(* A run of the agent lists once, ranks and asks about each gap once and    *)
(* briefs once (canonical_plan): its calls are a beginning of that list,    *)
(* whatever the hook and the tools answer and whatever the desk does        *)
(* between two of them.                                                     *)
THEOREM RunsAreShort == OfficeSpec => []RunIsShort
<1>1. OfficeInv => RunIsShort
  BY OrderIsShort DEF OfficeInv, RunInv
<1> QED
  BY OfficeInvariant, <1>1, PTL

(* In every state the hook cancels no call that the gate would have let do  *)
(* something (authority_hook.py before authority.py).                       *)
THEOREM HookAgreesWithGate == OfficeSpec => []HookFollowsGate
BY HookIsNoStricter, PTL

(* No refusal and no write to the roster falls between two briefs, as long  *)
(* as they are at most a day apart and arrive: each looks back a day from   *)
(* its own hour, and what went on record since the last is younger.         *)
THEOREM BriefsLeaveNothingOut == OfficeSpec => []NothingBetweenBriefs
<1>1. OfficeInv => NothingBetweenBriefs
  BY DEF OfficeInv
<1> QED
  BY OfficeInvariant, <1>1, PTL

(* While a report is open the store holds every row it does not complain    *)
(* of: of the rows that are read no two are about one person.               *)
THEOREM RowsAreNotLost == OfficeSpec => []NoRowLost
<1>1. OfficeInv => NoRowLost
  BY DEF OfficeInv
<1> QED
  BY OfficeInvariant, <1>1, PTL

(* A duty is confirmed by its first holder or by an acceptance on record at *)
(* that moment, never by a sheet: an ask is accepted once, so its           *)
(* assignment finds the key free.                                           *)
THEOREM ConfirmationsAreAnswers == OfficeSpec => []ConfirmedByAnswer
<1>1. OfficeInv => ConfirmedByAnswer
  BY DEF OfficeInv
<1> QED
  BY OfficeInvariant, <1>1, PTL

-----------------------------------------------------------------------------
(* The mail and the gate. *)

(* The receipts of withdrawals and of calls that were cancelled say what    *)
(* their keys say, and no number of a call in a message comes twice.        *)
KeysSay ==
  \A d \in Duties, p \in People, w \in Words :
    WithdrawKey(d, p, w) \in DOMAIN receipts =>
      /\ receipts[WithdrawKey(d, p, w)].class = "write"
      /\ receipts[WithdrawKey(d, p, w)].duty = d /\ receipts[WithdrawKey(d, p, w)].person = p

CallKey(tool, rule, j, c) == <<"hook_block", tool, rule, <<"mail", j, c>>>>

CallIds ==
  \A tool, rule : \A j, c \in Nat :
    CallKey(tool, rule, j, c) \in DOMAIN receipts =>
      j < jobs \/ (j = jobs /\ (mail # None => c < mail.calls))

(* The withdrawal that was first named is on record, or about to be.        *)
Traced ==
  mail # None /\ mail.named # None =>
    mail.next = mail.named \/ OnRecord(mail.named, receipts)

(* No verdict before the message is done with.                              *)
VerdictLast == mail # None => ~verdict

MailInv == jobs \in Nat /\ KeysSay /\ CallIds /\ Traced /\ VerdictLast

NewKey(k) ==
  \/ \E x, y : k = <<"assign", x, y>> \/ k = <<"blocked_send", x, y>>
  \/ \E tool, rule, i : k = <<"hook_block", tool, rule, <<"plan", i>>>>
  \/ \E d \in Duties, p \in People, w \in Words :
       /\ k = WithdrawKey(d, p, w)
       /\ receipts'[k].class = "write" /\ receipts'[k].duty = d /\ receipts'[k].person = p
  \/ \E call \in ToolCalls : \E rule :
       CancelModel(call) /\ k = CallKey(call.tool, rule, jobs, mail.calls)

LEMMA WithdrawalKeys ==
  ASSUME NEW d \in Duties, NEW p \in People, NEW w \in Words, RecordWithdrawal(d, p, w),
         NEW k \in DOMAIN receipts' \ DOMAIN receipts
  PROVE  NewKey(k)
<1>1. \/ receipts' = receipts
      \/ \E rule, result : receipts' = Record(WithdrawKey(d, p, w),
                                              Receipt("write", rule, result, d, p))
  BY DEF RecordWithdrawal, RefuseWithdrawal, ReplayWithdrawal, PerformWithdrawal
<1>2. PICK rule, result : receipts' = Record(WithdrawKey(d, p, w),
                                             Receipt("write", rule, result, d, p))
  BY <1>1
<1>3. k = WithdrawKey(d, p, w) /\ receipts'[k] = Receipt("write", rule, result, d, p)
  BY <1>2, Recorded
<1>4. receipts'[k].class = "write" /\ receipts'[k].duty = d /\ receipts'[k].person = p
  BY <1>3 DEF Receipt
<1> QED
  BY <1>3, <1>4 DEF NewKey

LEMMA RefusalKeys ==
  ASSUME NEW d, NEW chosen, NoteRefusal(d, chosen),
         NEW k \in DOMAIN receipts' \ DOMAIN receipts
  PROVE  NewKey(k)
<1>1. PICK p, r : receipts' = Record(<<"blocked_send", d, p>>, r)
  BY DEF NoteRefusal
<1>2. k = <<"blocked_send", d, p>>
  BY <1>1, Recorded
<1> QED
  BY <1>2 DEF NewKey

LEMMA CallKeys ==
  ASSUME NEW call \in ToolCalls, RunCall(call),
         NEW k \in DOMAIN receipts' \ DOMAIN receipts
  PROVE  NewKey(k)
<1>1. CASE call.tool = "record_withdrawal"
  <2>1. call.duty \in Duties /\ call.person \in People /\ call.words \in Words
    BY <1>1, ToolCallsAre
  <2>2. RecordWithdrawal(call.duty, call.person, call.words)
    BY <1>1 DEF RunCall
  <2> QED
    BY <2>1, <2>2, WithdrawalKeys
<1>2. CASE call.tool = "ask_next_person"
  <2>1. AskNextPerson(call.duty)
    BY <1>2 DEF RunCall
  <2> QED
    BY <2>1, RefusalKeys DEF AskNextPerson, AskAndNote
<1>3. CASE call.tool = "expire_lapsed_asks"
  BY <1>3 DEF RunCall, CloseLapsed
<1> QED
  BY <1>1, <1>2, <1>3, ToolCallsAre

LEMMA CancelKeys ==
  ASSUME NEW call \in ToolCalls, CancelModel(call)
  PROVE  \E rule :
           receipts' = Record(CallKey(call.tool, rule, jobs, mail.calls),
                              Receipt(Required(call.tool), rule, "blocked",
                                      call.duty, call.person))
<1>1. /\ CancelCall(Use(call.tool, call.duty), call.person, <<"mail", jobs, mail.calls>>)
      /\ Use(call.tool, call.duty).tool = call.tool /\ Use(call.tool, call.duty).duty = call.duty
  BY DEF CancelModel, Use
<1> QED
  BY <1>1 DEF CancelCall, CallKey

LEMMA NewKeys ==
  ASSUME MailTypeOK, PlainMail, [OfficeNext]_officeVars,
         NEW k \in DOMAIN receipts' \ DOMAIN receipts
  PROVE  NewKey(k)
<1>0. receipts' # receipts
  OBVIOUS
<1>1. CASE DeskNext
  <2>1. CASE queue # <<>> /\ AdvanceAndNote(Head(queue), Chosen(Head(queue)))
    BY <2>1, RefusalKeys DEF AdvanceAndNote
  <2>2. ASSUME NEW d \in Duties, NEW p \in People, Assign(d, p)
        PROVE  NewKey(k)
    <3>1. PICK r : receipts' = Record(<<"assign", d, p>>, r)
      BY <2>2 DEF Assign
    <3>2. k = <<"assign", d, p>>
      BY <3>1, Recorded
    <3> QED
      BY <3>2 DEF NewKey
  <2>3. ASSUME NEW d \in Duties, NEW p \in People, NEW w \in Words, RecordWithdrawal(d, p, w)
        PROVE  NewKey(k)
    BY <2>3, WithdrawalKeys
  <2> QED
    BY <1>0, <1>1, <2>1, <2>2, <2>3 DEF DeskNext, Sweep, Answer
<1>2. CASE AgentNext
  <2>1. CASE RefuseUse
    <3>1. CancelCall(Plan(history), None, <<"plan", Len(history) + 1>>)
      BY <2>1 DEF RefuseUse
    <3>2. PICK tool, rule, r :
            receipts' = Record(<<"hook_block", tool, rule, <<"plan", Len(history) + 1>>>>, r)
      BY <3>1 DEF CancelCall
    <3>3. k = <<"hook_block", tool, rule, <<"plan", Len(history) + 1>>>>
      BY <3>2, Recorded
    <3> QED
      BY <3>3 DEF NewKey
  <2>2. CASE RunTool
    <3>1. AskNextPerson(approved.duty)
      BY <1>0, <2>2 DEF RunTool, deskVars
    <3> QED
      BY <3>1, RefusalKeys DEF AskNextPerson, AskAndNote
  <2> QED
    BY <1>0, <1>2, <2>1, <2>2 DEF AgentNext, StartRun, ApproveUse, EndRun, deskVars
<1>3. CASE MailNext
  <2>1. CASE ActOnPhrases \/ RunModelCall
    BY <2>1, MailActs, CallKeys
  <2>2. ASSUME NEW call \in ToolCalls, CancelModel(call)
        PROVE  NewKey(k)
    <3>1. PICK rule, r : receipts' = Record(CallKey(call.tool, rule, jobs, mail.calls), r)
      BY <2>2, CancelKeys
    <3>2. k = CallKey(call.tool, rule, jobs, mail.calls)
      BY <3>1, Recorded
    <3> QED
      BY <2>2, <3>2 DEF NewKey
  <2> QED
    BY <1>0, <1>3, <2>1, <2>2 DEF MailNext, Receive, ReadPhrases, Escalate, CallTool,
       EndModel, deskVars
<1> QED
  BY <1>0, <1>1, <1>2, <1>3 DEF OfficeNext, BriefNext, SkipBrief, SendBrief, ImportNext,
     CloseReport, ImportPeople, ImportDuties, DryRun, officeVars, deskVars

LEMMA BookStays ==
  ASSUME OfficeInv, [OfficeNext]_officeVars
  PROVE  /\ DOMAIN receipts \subseteq DOMAIN receipts'
         /\ \A k \in DOMAIN receipts : receipts'[k] = receipts[k]
         /\ \A call : OnRecord(call, receipts) => OnRecord(call, receipts')
<1>1. /\ DOMAIN receipts \subseteq DOMAIN receipts'
      /\ \A k \in DOMAIN receipts : receipts'[k] = receipts[k]
  <2>1. Moves /\ TypeOK
    BY OfficeMoves DEF OfficeInv, OfficeTypeOK
  <2> QED
    BY <2>1, BookGrows
<1> QED
  BY <1>1 DEF OnRecord

LEMMA WithdrawalKeysKept ==
  ASSUME OfficeInv, KeysSay, [OfficeNext]_officeVars
  PROVE  KeysSay'
<1>1. SUFFICES ASSUME NEW d \in Duties, NEW p \in People, NEW w \in Words,
                      WithdrawKey(d, p, w) \in DOMAIN receipts'
               PROVE  /\ receipts'[WithdrawKey(d, p, w)].class = "write"
                      /\ receipts'[WithdrawKey(d, p, w)].duty = d
                      /\ receipts'[WithdrawKey(d, p, w)].person = p
  BY DEF KeysSay, WithdrawKey
<1>2. PICK k : k = WithdrawKey(d, p, w)
  OBVIOUS
<1>3. CASE k \in DOMAIN receipts
  BY <1>2, <1>3, BookStays DEF KeysSay
<1>4. CASE k \notin DOMAIN receipts
  <2>1. NewKey(k)
    BY <1>1, <1>2, <1>4, NewKeys DEF OfficeInv, OfficeTypeOK
  <2>2. \A e, q, v : k = WithdrawKey(e, q, v) => e = d /\ q = p
    BY <1>2 DEF WithdrawKey
  <2>3. k[1] = "withdraw"
    BY <1>2 DEF WithdrawKey
  <2>4. /\ \A x, y : k # <<"assign", x, y>> /\ k # <<"blocked_send", x, y>>
        /\ \A tool, rule, id : k # <<"hook_block", tool, rule, id>>
    BY <2>3
  <2>5. PICK e \in Duties, q \in People, v \in Words :
          /\ k = WithdrawKey(e, q, v)
          /\ receipts'[k].class = "write" /\ receipts'[k].duty = e /\ receipts'[k].person = q
    BY <2>1, <2>4 DEF NewKey, CallKey
  <2> QED
    BY <1>2, <2>2, <2>5
<1> QED
  BY <1>2, <1>3, <1>4

(* While a message is worked on the jobs are counted up at most, and its    *)
(* calls too.                                                               *)
LEMMA CountsGrow ==
  ASSUME MailTypeOK, jobs \in Nat, [OfficeNext]_officeVars
  PROVE  /\ jobs' \in Nat /\ jobs' >= jobs
         /\ mail' # None /\ jobs' = jobs => mail # None /\ mail'.calls >= mail.calls
         /\ \A call : CancelModel(call) => jobs' = jobs /\ mail'.calls = mail.calls + 1
<1>0. mail # None => mail \in Mail /\ mail.calls \in Int
  BY DEF MailTypeOK, Mail
<1>1. jobs' \in {jobs, jobs + 1}
  <2>1. ASSUME NEW d, AskNextPerson(d)
        PROVE  jobs' = jobs
    BY <2>1 DEF AskNextPerson, AskAndNote
  <2>2. CASE DeskNext
    BY <2>2 DEF DeskNext, Begin, Sweep, Answer, Assign
  <2>3. CASE AgentNext
    BY <2>1, <2>3 DEF AgentNext, StartRun, ApproveUse, RefuseUse, RunTool, EndRun, Begin,
       deskVars
  <2>4. CASE MailNext
    <3>1. ASSUME NEW call \in ToolCalls, RunCall(call)
          PROVE  jobs' = jobs
      BY <2>1, <3>1, ToolCallsAre DEF RunCall, CloseLapsed
    <3>2. CASE RunModelCall
      <4>1. mail.next \in ToolCalls /\ RunCall(mail.next)
        BY <1>0, <3>2 DEF RunModelCall, Mail
      <4> QED
        BY <3>1, <4>1
    <3> QED
      BY <2>4, <3>2 DEF MailNext, Receive, Begin, ReadPhrases, Escalate, ActOnPhrases,
         CallTool, CancelModel, EndModel, deskVars
  <2> QED
    BY <2>2, <2>3, <2>4 DEF OfficeNext, BriefNext, SkipBrief, SendBrief, ImportNext,
       CloseReport, ImportPeople, ImportDuties, DryRun, Begin, officeVars, deskVars
<1>2. ASSUME NEW call, CallTool(call) \/ CancelModel(call)
      PROVE  mail # None /\ mail'.calls = mail.calls + 1
  <2>1. mail # None /\ mail \in Mail
    BY <1>0, <1>2 DEF CallTool, CancelModel, MayCall, ReadBy
  <2>2. \/ mail' = [mail EXCEPT !.next = call, !.named = FirstNamed(call), !.calls = @ + 1]
        \/ mail' = [mail EXCEPT !.named = FirstNamed(call), !.calls = @ + 1]
    BY <1>2 DEF CallTool, CancelModel
  <2> QED
    BY <2>1, <2>2 DEF Mail
<1>3. ASSUME ReadPhrases \/ RunModelCall
      PROVE  mail # None /\ mail'.calls = mail.calls
  <2>1. mail # None /\ mail \in Mail
    BY <1>0, <1>3 DEF ReadPhrases, RunModelCall, ReadBy
  <2>2. \E x, y : mail' = [mail EXCEPT !.next = x, !.named = y] \/ mail' = [mail EXCEPT !.next = x]
    BY <1>3 DEF ReadPhrases, RunModelCall
  <2> QED
    BY <2>1, <2>2 DEF Mail
<1>4. Receive => jobs' = jobs + 1
  BY DEF Receive, Begin
<1>5. \A call : CancelModel(call) => jobs' = jobs
  BY DEF CancelModel
<1>6. \/ Receive \/ ReadPhrases \/ RunModelCall \/ mail' = None \/ mail' = mail
      \/ \E call : CallTool(call) \/ CancelModel(call)
  BY DEF OfficeNext, MailNext, Escalate, ActOnPhrases, EndModel, Done, officeVars, mailVars
<1> QED
  BY <1>0, <1>1, <1>2, <1>3, <1>4, <1>5, <1>6

LEMMA CallIdsKept ==
  ASSUME OfficeInv, jobs \in Nat, CallIds, [OfficeNext]_officeVars
  PROVE  CallIds'
<1>0. MailTypeOK /\ PlainMail
  BY DEF OfficeInv, OfficeTypeOK
<1>1. SUFFICES ASSUME NEW tool, NEW rule, NEW j \in Nat, NEW c \in Nat,
                      CallKey(tool, rule, j, c) \in DOMAIN receipts'
               PROVE  j < jobs' \/ (j = jobs' /\ (mail' # None => c < mail'.calls))
  BY DEF CallIds, CallKey
<1>2. PICK k : k = CallKey(tool, rule, j, c)
  OBVIOUS
<1>3. /\ jobs' \in Nat /\ jobs' >= jobs
      /\ mail' # None /\ jobs' = jobs => mail # None /\ mail'.calls >= mail.calls
      /\ \A call : CancelModel(call) => jobs' = jobs /\ mail'.calls = mail.calls + 1
  BY <1>0, CountsGrow
<1>4. /\ mail # None => mail.calls \in Int
      /\ mail' # None => mail'.calls \in Int
  BY <1>0, MailKept DEF MailTypeOK, Mail
<1>5. CASE k \in DOMAIN receipts
  <2>1. j < jobs \/ (j = jobs /\ (mail # None => c < mail.calls))
    BY <1>2, <1>5 DEF CallIds
  <2> QED
    BY <1>3, <1>4, <2>1
<1>6. CASE k \notin DOMAIN receipts
  <2>1. NewKey(k)
    BY <1>0, <1>1, <1>2, <1>6, NewKeys
  <2>2. k[1] = "hook_block" /\ k[4][1] = "mail"
    BY <1>2 DEF CallKey
  <2>3. /\ \A x, y : k # <<"assign", x, y>> /\ k # <<"blocked_send", x, y>>
        /\ \A d, p, w : k # WithdrawKey(d, p, w)
    BY <2>2 DEF WithdrawKey
  <2>4. \A t, r, i : k # <<"hook_block", t, r, <<"plan", i>>>>
    BY <2>2
  <2>5. PICK call \in ToolCalls :
          CancelModel(call) /\ \E r : k = CallKey(call.tool, r, jobs, mail.calls)
    BY <2>1, <2>3, <2>4 DEF NewKey
  <2>6. j = jobs /\ c = mail.calls
    BY <1>2, <2>5 DEF CallKey
  <2>7. mail # None
    BY <2>5 DEF CancelModel, MayCall, ReadBy
  <2> QED
    BY <1>3, <1>4, <2>5, <2>6, <2>7
<1> QED
  BY <1>2, <1>5, <1>6

(* A withdrawal that is called for is on record when it has been cancelled, *)
(* refused, replayed or performed.                                          *)
LEMMA CancelsAreRecorded ==
  ASSUME MailTypeOK, jobs \in Nat, CallIds, NEW call \in Withdrawals, CancelModel(call)
  PROVE  OnRecord(call, receipts')
<1>0. call \in ToolCalls /\ call.tool = "record_withdrawal"
  BY DEF ToolCalls, Withdrawals, Withdrawal
<1>1. PICK rule : receipts' = Record(CallKey(call.tool, rule, jobs, mail.calls),
                                     Receipt(Required(call.tool), rule, "blocked",
                                             call.duty, call.person))
  BY <1>0, CancelKeys
<1>2. PICK k, r : /\ k = CallKey(call.tool, rule, jobs, mail.calls)
                  /\ r = Receipt(Required(call.tool), rule, "blocked", call.duty, call.person)
  OBVIOUS
<1>3. k \notin DOMAIN receipts
  <2>1. mail # None /\ mail.calls \in Nat
    BY DEF CancelModel, MayCall, ReadBy, MailTypeOK, Mail
  <2>2. ~(jobs < jobs) /\ ~(mail.calls < mail.calls)
    BY <2>1
  <2> QED
    BY <1>2, <2>1, <2>2 DEF CallIds
<1>4. k \in DOMAIN receipts' /\ receipts'[k] = r
  BY <1>1, <1>2, <1>3, Recorded
<1>5. Required(call.tool) = "write"
  BY <1>0 DEF Required
<1>6. r.class = "write" /\ r.duty = call.duty /\ r.person = call.person
  BY <1>2, <1>5 DEF Receipt
<1> QED
  BY <1>4, <1>6 DEF OnRecord

LEMMA WithdrawalsAreRecorded ==
  ASSUME OfficeInv, KeysSay, [OfficeNext]_officeVars,
         NEW call \in Withdrawals, RecordWithdrawal(call.duty, call.person, call.words)
  PROVE  OnRecord(call, receipts')
<1>1. PICK d \in Duties, p \in People, w \in Words :
        call.duty = d /\ call.person = p /\ call.words = w
  BY DEF Withdrawals, Withdrawal
<1>2. PICK k : k = WithdrawKey(d, p, w)
  OBVIOUS
<1>3. k \in DOMAIN receipts'
  <2>1. ASSUME RefuseWithdrawal(d, p, w) \/ PerformWithdrawal(d, p, w)
        PROVE  k \in DOMAIN receipts'
    <3>1. PICK r : receipts' = Record(k, r)
      BY <1>2, <2>1 DEF RefuseWithdrawal, PerformWithdrawal
    <3> QED
      BY <3>1, Recorded
  <2>2. CASE ReplayWithdrawal(d, p, w)
    BY <1>2, <2>2 DEF ReplayWithdrawal, WithdrawOutcome
  <2> QED
    BY <1>1, <2>1, <2>2 DEF RecordWithdrawal
<1>4. KeysSay'
  BY WithdrawalKeysKept
<1>5. /\ receipts'[k].class = "write" /\ receipts'[k].duty = d /\ receipts'[k].person = p
  BY <1>2, <1>3, <1>4 DEF KeysSay, WithdrawKey
<1> QED
  BY <1>1, <1>3, <1>5 DEF OnRecord

LEMMA TracedKept ==
  ASSUME OfficeInv, MailInv, [OfficeNext]_officeVars
  PROVE  Traced'
<1>0. /\ MailTypeOK /\ PlainMail /\ jobs \in Nat /\ KeysSay /\ CallIds /\ Traced
      /\ mail # None => /\ mail \in Mail /\ mail.named \in Withdrawals \cup {None}
  BY DEF OfficeInv, OfficeTypeOK, MailInv, MailTypeOK, Mail
<1>1. CASE mail' = None
  BY <1>1 DEF Traced
<1>2. CASE Receive
  <2>1. mail'.named = None
    BY <1>2 DEF Receive
  <2> QED
    BY <2>1 DEF Traced
<1>3. CASE ReadPhrases
  <2>1. mail # None /\ mail \in Mail
    BY <1>0, <1>3 DEF ReadPhrases, ReadBy
  <2>2. PICK call : mail' = [mail EXCEPT !.next = call, !.named = call]
    BY <1>3 DEF ReadPhrases
  <2>3. mail'.next = mail'.named
    BY <2>1, <2>2 DEF Mail
  <2> QED
    BY <2>3 DEF Traced
<1>4. ASSUME NEW call \in ToolCalls, CallTool(call) \/ CancelModel(call), mail'.named # None
      PROVE  mail'.next = mail'.named \/ OnRecord(mail'.named, receipts')
  <2>1. mail # None /\ mail \in Mail /\ mail.next = None
    BY <1>0, <1>4 DEF CallTool, CancelModel, MayCall, ReadBy
  <2>2. /\ mail'.named = FirstNamed(call)
        /\ CallTool(call) => mail'.next = call
    BY <1>4, <2>1 DEF CallTool, CancelModel, Mail
  <2>3. CASE mail.named # None
    <3>1. mail'.named = mail.named
      BY <2>2, <2>3 DEF FirstNamed
    <3>2. OnRecord(mail.named, receipts)
      BY <1>0, <2>1, <2>3 DEF Traced
    <3> QED
      BY <3>1, <3>2, BookStays
  <2>4. CASE mail.named = None
    <3>1. mail'.named = call /\ call \in Withdrawals
      BY <1>4, <2>2, <2>4 DEF FirstNamed
    <3>2. CASE CallTool(call)
      BY <2>2, <3>1, <3>2
    <3>3. CASE CancelModel(call)
      BY <1>0, <3>1, <3>3, CancelsAreRecorded
    <3> QED
      BY <1>4, <3>2, <3>3
  <2> QED
    BY <2>3, <2>4
<1>5. CASE RunModelCall
  <2>1. mail # None /\ mail \in Mail /\ mail' = [mail EXCEPT !.next = None]
    BY <1>0, <1>5 DEF RunModelCall
  <2>2. mail'.named = mail.named
    BY <2>1 DEF Mail
  <2>3. CASE mail.named = None
    BY <2>2, <2>3 DEF Traced
  <2>4. CASE mail.named # None /\ OnRecord(mail.named, receipts)
    BY <2>2, <2>4, BookStays DEF Traced
  <2>5. CASE mail.named # None /\ mail.next = mail.named
    <3>1. mail.named \in Withdrawals /\ RunCall(mail.named)
      BY <1>0, <1>5, <2>1, <2>5, MailActs
    <3>2. mail.named.tool = "record_withdrawal"
      BY <3>1 DEF Withdrawals, Withdrawal
    <3>3. RecordWithdrawal(mail.named.duty, mail.named.person, mail.named.words)
      BY <3>1, <3>2 DEF RunCall
    <3>4. OnRecord(mail.named, receipts')
      BY <1>0, <3>1, <3>3, WithdrawalsAreRecorded
    <3> QED
      BY <2>2, <3>4 DEF Traced
  <2> QED
    BY <1>0, <2>1, <2>3, <2>4, <2>5 DEF Traced
<1>6. CASE mail' = mail
  BY <1>0, <1>6, BookStays DEF Traced
<1> QED
  BY <1>1, <1>2, <1>3, <1>4, <1>5, <1>6 DEF OfficeNext, MailNext, Escalate, ActOnPhrases,
     EndModel, Done, officeVars, mailVars, Traced

LEMMA MailInvKept ==
  ASSUME OfficeInv, MailInv, [OfficeNext]_officeVars
  PROVE  MailInv'
<1>1. MailTypeOK /\ jobs \in Nat /\ KeysSay /\ CallIds
  BY DEF OfficeInv, OfficeTypeOK, MailInv
<1>2. jobs' \in Nat
  BY <1>1, CountsGrow
<1>3. KeysSay' /\ CallIds' /\ Traced'
  BY <1>1, WithdrawalKeysKept, CallIdsKept, TracedKept
<1>4. VerdictLast'
  BY DEF OfficeNext, MailNext, Receive, ReadBy, ReadPhrases, Escalate, ActOnPhrases, MayCall,
     CallTool, CancelModel, RunModelCall, EndModel, Done, officeVars, mailVars, MailInv,
     VerdictLast
<1> QED
  BY <1>2, <1>3, <1>4 DEF MailInv

(* Who is taken off a duty held it, and the receipt says so.                *)
LEMMA CallReleases ==
  ASSUME TypeOK, MailTypeOK, PlainMail, NEW call \in ToolCalls, RunCall(call),
         mail.reader = "model" \/ call.person = mail.from,
         NEW d \in Duties, holder'[d] # holder[d]
  PROVE  Released(d)
<1>1. CASE call.tool = "record_withdrawal"
  <2>1. PICK e \in Duties, p \in People, w \in Words :
          call.duty = e /\ call.person = p /\ call.words = w
    BY <1>1, ToolCallsAre
  <2>2. RecordWithdrawal(e, p, w)
    BY <1>1, <2>1 DEF RunCall
  <2>3. PerformWithdrawal(e, p, w)
    <3>1. ~(UNCHANGED vars)
      BY DEF vars, rosterVars
    <3> QED
      BY <2>2, <3>1, WithdrawalSteps
  <2>4. /\ Allowed(Withdrawing(e, p)) /\ holder' = [holder EXCEPT ![e] = None]
        /\ WithdrawKey(e, p, w) \notin DOMAIN receipts
    BY <2>3 DEF PerformWithdrawal, Withdraw, WithdrawOutcome
  <2>5. holder[e] = p /\ Granted("write")
    BY <2>4, WithdrawPermitted
  <2>6. e = d /\ holder'[d] = None
    BY <2>4 DEF TypeOK
  <2>7. "write" \in GrantedLevels
    BY <2>5 DEF Granted, GrantedLevels
  <2>8. PICK k, r : /\ k = WithdrawKey(d, p, w) /\ receipts' = Record(k, r)
                    /\ r.result = "verified"
    <3>1. PICK rule : receipts' = Record(WithdrawKey(d, p, w),
                                         Receipt("write", rule, "verified", d, p))
      BY <2>3, <2>6 DEF PerformWithdrawal
    <3>2. Receipt("write", rule, "verified", d, p).result = "verified"
      BY DEF Receipt
    <3> QED
      BY <3>1, <3>2
  <2>9. k \notin DOMAIN receipts
    BY <2>4, <2>6, <2>8
  <2>10. k \in DOMAIN receipts' /\ receipts'[k] = r
    BY <2>8, <2>9, Recorded
  <2>11. k \in DOMAIN receipts' \ DOMAIN receipts /\ receipts'[k].result = "verified"
    BY <2>8, <2>9, <2>10
  <2> QED
    BY <2>1, <2>5, <2>6, <2>7, <2>8, <2>11 DEF Released
<1>2. CASE call.tool = "ask_next_person"
  <2>1. call.duty \in Duties /\ AskNextPerson(call.duty)
    BY <1>2, ToolCallsAre DEF RunCall
  <2> QED
    BY <2>1, AskingNoted
<1>3. CASE call.tool = "expire_lapsed_asks"
  BY <1>3 DEF RunCall, CloseLapsed
<1> QED
  BY <1>1, <1>2, <1>3, ToolCallsAre

LEMMA MailPasses ==
  ASSUME OfficeInv, MailInv, [OfficeNext]_officeVars
  PROVE  MailStep
<1>0. /\ TypeOK /\ MailTypeOK /\ PlainMail /\ KeysSay /\ Traced /\ VerdictLast
  BY DEF OfficeInv, OfficeTypeOK, MailInv
<1>1. SUFFICES ASSUME mail # None, mail' # mail
               PROVE  /\ \A d \in Duties : holder'[d] # holder[d] => Released(d)
                      /\ mail' = None /\ verdict' => OnRecord(mail.named, receipts')
  BY DEF MailStep
<1>2. CASE ActOnPhrases
  <2>1. /\ mail.next \in ToolCalls /\ mail.next \in Withdrawals /\ RunCall(mail.next)
        /\ mail.next = mail.named /\ mail.next.person = mail.from
    BY <1>0, <1>2, MailActs
  <2>2. \A d \in Duties : holder'[d] # holder[d] => Released(d)
    BY <1>0, <2>1, CallReleases
  <2>3. RecordWithdrawal(mail.next.duty, mail.next.person, mail.next.words)
    BY <1>2 DEF ActOnPhrases
  <2>4. OnRecord(mail.named, receipts')
    BY <1>0, <2>1, <2>3, WithdrawalsAreRecorded
  <2> QED
    BY <2>2, <2>4
<1>3. CASE RunModelCall
  <2>1. mail.reader = "model" /\ verdict' = verdict
    BY <1>3 DEF RunModelCall
  <2>2. \A d \in Duties : holder'[d] # holder[d] => Released(d)
    BY <1>0, <1>3, <2>1, MailActs, CallReleases
  <2> QED
    BY <1>0, <1>1, <2>1, <2>2 DEF VerdictLast
<1>4. CASE EndModel
  <2>1. /\ holder' = holder /\ receipts' = receipts
        /\ mail.next = None /\ verdict' = (mail.named # None)
    BY <1>4 DEF EndModel, ReadBy, Done, deskVars, vars, rosterVars
  <2>2. verdict' => OnRecord(mail.named, receipts)
    BY <1>0, <1>1, <2>1 DEF Traced
  <2> QED
    BY <2>1, <2>2
<1>5. CASE Escalate
  BY <1>5 DEF Escalate, Done, deskVars, vars, rosterVars
<1>6. ASSUME ReadPhrases \/ \E call \in ToolCalls : CallTool(call) \/ CancelModel(call)
      PROVE  /\ \A d \in Duties : holder'[d] # holder[d] => Released(d)
             /\ mail' = None /\ verdict' => OnRecord(mail.named, receipts')
  <2>1. holder' = holder /\ verdict' = verdict
    BY <1>6 DEF ReadPhrases, CallTool, CancelModel, deskVars, vars, rosterVars
  <2> QED
    BY <1>0, <1>1, <2>1 DEF VerdictLast
<1> QED
  BY <1>1, <1>2, <1>3, <1>4, <1>5, <1>6 DEF OfficeNext, MailNext, Receive, officeVars, mailVars

(* Whatever the model calls for, a message puts nobody on a duty and takes  *)
(* off it only who holds it, with writing granted and a new receipt, and it *)
(* counts as handled only with a receipt about the person and the duty it   *)
(* first named (authority_hook.py before the tools, authority.py in them).  *)
THEOREM MailPassesTheGate == OfficeSpec => MailIsGated
<1>1. OfficeInit => MailInv
  <2>1. DOMAIN receipts = {} /\ jobs = 0 /\ mail = None
        => MailInv
    BY DEF MailInv, KeysSay, CallIds, Traced, VerdictLast
  <2> QED
    BY <2>1 DEF OfficeInit, DeskInit, MailInit
<1>2. OfficeInv /\ MailInv /\ [OfficeNext]_officeVars => MailInv' /\ [MailStep]_officeVars
  BY MailInvKept, MailPasses
<1> QED
  BY <1>1, <1>2, OfficeInvariant, PTL DEF OfficeSpec, MailIsGated

-----------------------------------------------------------------------------
(* The budget of asks, with everybody at work. *)

(* Whoever moves, the rows move as the loop alone moves them, or not at all: *)
(* the spreadsheets replace people and duties under open asks and leave the *)
(* asks and the clock alone.                                                *)
LEMMA MovesKeepBudget ==
  ASSUME TypeOK, BudgetInv, Moves
  PROVE  BudgetInv'
<1>1. ASSUME UNCHANGED <<now, ask>>
      PROVE  BudgetInv'
  BY <1>1, StillCloses, ClosingBudget
<1>2. ASSUME NEW d \in Duties, NEW p \in People, Assign(d, p)
      PROVE  BudgetInv'
  <2>1. Next
    BY <1>2 DEF Assign, Next
  <2> QED
    BY <2>1, NextBudget
<1>3. ASSUME NEW d \in Duties, NEW p \in People, NEW w \in Words, PerformWithdrawal(d, p, w)
      PROVE  BudgetInv'
  <2>1. Next
    BY <1>3 DEF PerformWithdrawal, Next
  <2> QED
    BY <2>1, NextBudget
<1>4. ASSUME NEW rows \in PeopleSheets \cup DutySheets, ImportPeople(rows) \/ ImportDuties(rows)
      PROVE  BudgetInv'
  <2>1. UNCHANGED <<now, ask>>
    BY <1>4 DEF ImportPeople, ImportDuties
  <2> QED
    BY <1>1, <2>1
<1>5. CASE Quiet
  BY <1>5, NextBudget DEF Quiet
<1>6. CASE CloseLapsed
  <2>1. ClosesRows /\ UNCHANGED now
    BY <1>6, LapsingCloses DEF CloseLapsed, TypeOK
  <2> QED
    BY <2>1, ClosingBudget
<1> QED
  BY <1>2, <1>3, <1>4, <1>5, <1>6 DEF Moves

(* The ceiling of asks in a week holds for whoever asks: the sweep, a       *)
(* coordinator, a run of the agent, with imports that make people over and  *)
(* withdrawals by mail in between (fairness.py counts ask rows alone).      *)
THEOREM CeilingHoldsForAll == OfficeSpec => []SlidingBudget
<1>1. OfficeInit => BudgetInv
  <2>1. Init => BudgetInv
    BY TimedInit, RowsOfInv DEF RowsInv
  <2> QED
    BY <2>1 DEF OfficeInit, DeskInit
<1>2. OfficeInv /\ BudgetInv /\ [OfficeNext]_officeVars => BudgetInv'
  BY OfficeMoves, MovesKeepBudget DEF OfficeInv, OfficeTypeOK
<1>3. BudgetInv => SlidingBudget
  BY DEF BudgetInv
<1> QED
  BY <1>1, <1>2, <1>3, OfficeInvariant, PTL DEF OfficeSpec
=============================================================================
