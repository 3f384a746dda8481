---------------------------- MODULE TimedFill_proofs ----------------------------
(***************************************************************************)
(* Theorems of TimedFill, for every roster, every set of people and duties *)
(* and every length of the day, the week and the windows.                  *)
(***************************************************************************)
EXTENDS TimedFill, FiniteSetTheorems, SequenceTheorems, TLAPS

(* An ask by e-mail, whatever became of it, left in time for the duty and   *)
(* outside the quiet hours of whoever it was sent to, and stays open as     *)
(* long as the notice at that moment allowed.                               *)
SentWell(d, p) ==
  LET row == ask[<<"email", d, p>>]
  IN /\ row.sent \in 0 .. now
     /\ row.sent <= NoticeDeadline(d)
     /\ row.expires = row.sent + AskWindowAt(d, row.sent)
     /\ ~InQuietHours(p, row.sent)
     /\ ~BlackedOut(p, d)

(* Who is being put on a duty answered in time, and no sweep is running.    *)
AnswersInTime ==
  \A d \in Duties, p \in People :
    answering = <<d, p>> =>
      /\ queue = <<>>
      /\ Emailed(d, p)
      /\ now < ask[<<"email", d, p>>].expires

(* What a sweep has yet to advance was a gap within its horizon.            *)
NearGap(d) == now < Shift[d].start /\ (Shift[d].start - now) \div Day <= HorizonDays

Written == {a \in AskIds : ask[a].state # "absent"}

TimedInv ==
  /\ TypeOK
  /\ person = InitialPerson
  /\ IsFiniteSet(Written)
  /\ \A a \in AskIds : ask[a].state = "absent" => ask[a] = NoAsk
  /\ \A d \in Duties, p \in People : Emailed(d, p) => SentWell(d, p)
  /\ AnswersInTime
  /\ \A i \in DOMAIN queue : NearGap(queue[i])
  /\ SlidingBudget

-----------------------------------------------------------------------------
(* Whole numbers. *)

LEMMA SmallMin ==
  ASSUME NEW S, S \subseteq {1, 2, 3, 4}, S # {}
  PROVE  Min(S) \in S /\ \A x \in S : Min(S) <= x
<1>1. PICK m \in S : \A x \in S : m <= x
  <2>1. CASE 1 \in S
    BY <2>1
  <2>2. CASE 1 \notin S /\ 2 \in S
    BY <2>2
  <2>3. CASE 1 \notin S /\ 2 \notin S /\ 3 \in S
    BY <2>3
  <2>4. CASE 1 \notin S /\ 2 \notin S /\ 3 \notin S
    <3>1. S = {4}
      BY <2>4
    <3> QED
      BY <3>1
  <2> QED
    BY <2>1, <2>2, <2>3, <2>4
<1> QED
  BY <1>1 DEF Min

LEMMA PairMin ==
  ASSUME NEW m \in Int, NEW n \in Int
  PROVE  Min({m, n}) = IF m <= n THEN m ELSE n
<1> DEFINE least == IF m <= n THEN m ELSE n
<1>1. least \in {m, n} /\ \A x \in {m, n} : least <= x
  OBVIOUS
<1>2. \A y \in {m, n} : (\A x \in {m, n} : y <= x) => y = least
  OBVIOUS
<1> QED
  BY <1>1, <1>2 DEF Min

LEMMA Quotient ==
  ASSUME NEW n \in Nat \ {0}, NEW x \in Int
  PROVE  /\ x % n \in 0 .. (n - 1)
         /\ x \div n \in Int
         /\ x = (x \div n) * n + (x % n)
OBVIOUS

LEMMA Remainder ==
  ASSUME NEW n \in Nat \ {0}, NEW k \in Int, NEW e \in 0 .. (n - 1), NEW x \in Int,
         x = k * n + e
  PROVE  x % n = e
OBVIOUS

(* Every hour of the day comes within a day.                                *)
LEMMA HourComes ==
  ASSUME NEW n \in Nat \ {0}, NEW x \in Int, NEW e \in 0 .. (n - 1)
  PROVE  \E y \in x .. (x + n - 1) : y % n = e
<1>1. PICK hour \in 0 .. (n - 1), k \in Int : x = k * n + hour
  BY Quotient
<1>2. CASE e >= hour
  <2>1. PICK y \in Int : y = x + (e - hour)
    BY <1>1
  <2>2. y \in x .. (x + n - 1) /\ y = k * n + e
    BY <1>1, <1>2, <2>1
  <2>3. y % n = e
    BY <1>1, <2>2, Remainder
  <2> QED
    BY <2>2, <2>3
<1>3. CASE e < hour
  <2>1. PICK y \in Int : y = x + (e - hour) + n
    BY <1>1
  <2>2. y \in x .. (x + n - 1) /\ y = (k + 1) * n + e
    BY <1>1, <1>3, <2>1
  <2>3. y % n = e
    BY <1>1, <2>2, Remainder
  <2> QED
    BY <2>2, <2>3
<1> QED
  BY <1>1, <1>2, <1>3

(* A set of whole numbers with a lower bound has a least element.           *)
LEMMA LeastThere ==
  ASSUME NEW S, NEW low \in Int, NEW high \in Int, S \subseteq low .. high, S # {}
  PROVE  Min(S) \in S /\ \A x \in S : Min(S) <= x
<1> DEFINE Upto(m) == {x \in S : x <= m}
           T == {Upto(m) : m \in S}
<1>1. IsFiniteSet(S)
  <2>1. IsFiniteSet(low .. high)
    BY FS_Interval
  <2> QED
    BY <2>1, FS_Subset
<1>2. T \subseteq FiniteSubsetsOf(S) /\ T # {}
  <2>1. \A m \in S : IsFiniteSet(Upto(m))
    BY <1>1, FS_Subset
  <2> QED
    BY <2>1 DEF FiniteSubsetsOf
<1>3. PICK least \in T : \A other \in T : <<other, least>> \notin StrictSubsetOrdering(S)
  BY <1>2, FS_StrictSubsetOrderingWellFounded, WFMin
<1>4. PICK m \in S : least = Upto(m)
  OBVIOUS
<1>5. ASSUME NEW x \in S, x < m PROVE FALSE
  <2>1. \A y \in S : y \in Int
    OBVIOUS
  <2>2. Upto(x) \subseteq Upto(m)
    <3>1. \A y \in S : y <= x => y <= m
      BY <1>5, <2>1
    <3> QED
      BY <3>1
  <2>3. m \in Upto(m) /\ m \notin Upto(x)
    BY <1>5, <2>1
  <2>4. Upto(x) \in T
    OBVIOUS
  <2> QED
    BY <1>3, <1>4, <2>2, <2>3, <2>4 DEF StrictSubsetOrdering
<1>6. \A x \in S : m <= x
  BY <1>5
<1> QED
  BY <1>6 DEF Min

(* Of finitely many things with a number each, one has the greatest.        *)
LEMMA Greatest ==
  ASSUME NEW S, IsFiniteSet(S), S # {}, NEW f \in [S -> Int]
  PROVE  \E m \in S : \A x \in S : f[x] <= f[m]
<1> DEFINE Topped(s) == \E m \in s : \A x \in s : f[x] <= f[m]
           T == {s \in SUBSET S : s # {} /\ ~Topped(s)}
<1>1. SUFFICES ASSUME T # {} PROVE FALSE
  OBVIOUS
<1>2. IsWellFoundedOn(StrictSubsetOrdering(S), SUBSET S)
  BY FS_StrictSubsetOrderingWellFounded, FS_FiniteSubsetsOfFinite
<1>3. T \subseteq SUBSET S
  OBVIOUS
<1> HIDE DEF T
<1>4. PICK s \in T : \A r \in T : ~(<<r, s>> \in StrictSubsetOrdering(S))
  BY <1>1, <1>2, <1>3, WFMin
<1>5. s \in SUBSET S /\ s # {} /\ ~Topped(s)
  BY DEF T
<1>6. PICK a \in s : TRUE
  BY <1>5
<1>7. s \ {a} \notin T
  <2>1. <<s \ {a}, s>> \in StrictSubsetOrdering(S)
    BY <1>5, <1>6 DEF StrictSubsetOrdering
  <2> QED
    BY <1>4, <2>1
<1>8. CASE s \ {a} = {}
  BY <1>5, <1>6, <1>8
<1>9. CASE s \ {a} # {}
  <2>1. Topped(s \ {a})
    BY <1>5, <1>7, <1>9 DEF T
  <2>2. PICK b \in s \ {a} : \A x \in s \ {a} : f[x] <= f[b]
    BY <2>1
  <2>3. f[a] \in Int /\ \A x \in s : f[x] \in Int
    BY <1>5, <1>6
  <2>4. CASE f[a] <= f[b]
    BY <1>5, <2>2, <2>4
  <2>5. CASE ~(f[a] <= f[b])
    <3>1. \A x \in s : f[x] <= f[a]
      BY <2>2, <2>3, <2>5
    <3> QED
      BY <1>5, <1>6, <3>1
  <2> QED
    BY <2>4, <2>5
<1> QED
  BY <1>8, <1>9

LEMMA WithinDays ==
  ASSUME NEW n \in Nat \ {0}, NEW x \in Int, NEW h \in Int, x \div n <= h
  PROVE  x < (h + 1) * n
OBVIOUS

-----------------------------------------------------------------------------
(* The gate: a rule list is read in order. *)

(* With no rule broken the list approves, and else the first one broken     *)
(* decides (authority.py).                                                  *)
LEMMA FirstOfFour ==
  ASSUME NEW rules, DOMAIN rules = 1 .. 4, NEW approval
  PROVE  /\ (\A i \in 1 .. 4 : ~rules[i][1]) => FirstRefusal(rules, approval) = approval
         /\ (\E i \in 1 .. 4 : rules[i][1]) =>
              \E i \in 1 .. 4 : /\ rules[i][1]
                                /\ \A j \in 1 .. (i - 1) : ~rules[j][1]
                                /\ FirstRefusal(rules, approval) = rules[i][2]
<1> DEFINE broken == {i \in DOMAIN rules : rules[i][1]}
<1>1. broken \subseteq {1, 2, 3, 4}
  OBVIOUS
<1>2. ASSUME \A i \in 1 .. 4 : ~rules[i][1]
      PROVE  FirstRefusal(rules, approval) = approval
  BY <1>2 DEF FirstRefusal
<1>3. ASSUME NEW k \in 1 .. 4, rules[k][1]
      PROVE  \E i \in 1 .. 4 : /\ rules[i][1]
                               /\ \A j \in 1 .. (i - 1) : ~rules[j][1]
                               /\ FirstRefusal(rules, approval) = rules[i][2]
  <2>1. broken # {}
    BY <1>3
  <2>2. Min(broken) \in broken /\ \A x \in broken : Min(broken) <= x
    BY <1>1, <2>1, SmallMin
  <2>3. FirstRefusal(rules, approval) = rules[Min(broken)][2]
    BY <2>1 DEF FirstRefusal
  <2>4. \A j \in 1 .. (Min(broken) - 1) : ~rules[j][1]
    BY <1>1, <2>2
  <2> QED
    BY <2>2, <2>3, <2>4
<1> QED
  BY <1>2, <1>3

LEMMA SendRules ==
  ASSUME NEW d \in Duties, NEW p \in People
  PROVE  LET rule == SendRule(Asking("send", d, p))
         IN /\ rule \in {"R5", "R6-no-opt-in", "R7", "R8", "R6-opted-in"}
            /\ rule = "R5" <=> ~person[p].active
            /\ rule = "R6-no-opt-in" <=> person[p].active /\ ~person[p].optedIn
            /\ rule = "R6-opted-in" <=>
                 /\ person[p].active /\ person[p].optedIn
                 /\ ~InQuietHours(p, now) /\ BudgetLeft(p)
            /\ rule = "R7" <=> person[p].active /\ person[p].optedIn /\ InQuietHours(p, now)
<1> DEFINE rules == << <<~person[p].active, "R5">>,
                       <<~person[p].optedIn, "R6-no-opt-in">>,
                       <<InQuietHours(p, now), "R7">>,
                       <<~BudgetLeft(p), "R8">> >>
<1>1. /\ rules[1][1] <=> ~person[p].active
      /\ rules[2][1] <=> ~person[p].optedIn
      /\ rules[3][1] <=> InQuietHours(p, now)
      /\ rules[4][1] <=> ~BudgetLeft(p)
  OBVIOUS
<1>2. /\ rules[1][2] = "R5" /\ rules[2][2] = "R6-no-opt-in"
      /\ rules[3][2] = "R7" /\ rules[4][2] = "R8"
  OBVIOUS
<1>3. DOMAIN rules = 1 .. 4
  OBVIOUS
<1>4. SendRule(Asking("send", d, p)) = FirstRefusal(rules, "R6-opted-in")
  BY DEF SendRule, Asking
<1> HIDE DEF rules
<1>5. \/ /\ \A i \in 1 .. 4 : ~rules[i][1]
         /\ SendRule(Asking("send", d, p)) = "R6-opted-in"
      \/ \E i \in 1 .. 4 : /\ rules[i][1]
                           /\ \A j \in 1 .. (i - 1) : ~rules[j][1]
                           /\ SendRule(Asking("send", d, p)) = rules[i][2]
  BY <1>3, <1>4, FirstOfFour
<1>6. ASSUME NEW i \in 1 .. 4, rules[i][1], \A j \in 1 .. (i - 1) : ~rules[j][1],
             SendRule(Asking("send", d, p)) = rules[i][2]
      PROVE  \/ ~person[p].active /\ SendRule(Asking("send", d, p)) = "R5"
             \/ /\ person[p].active /\ ~person[p].optedIn
                /\ SendRule(Asking("send", d, p)) = "R6-no-opt-in"
             \/ /\ person[p].active /\ person[p].optedIn /\ InQuietHours(p, now)
                /\ SendRule(Asking("send", d, p)) = "R7"
             \/ /\ person[p].active /\ person[p].optedIn
                /\ ~InQuietHours(p, now) /\ ~BudgetLeft(p)
                /\ SendRule(Asking("send", d, p)) = "R8"
  <2>1. CASE i = 1
    BY <1>1, <1>2, <1>6, <2>1
  <2>2. CASE i = 2
    BY <1>1, <1>2, <1>6, <2>2
  <2>3. CASE i = 3
    BY <1>1, <1>2, <1>6, <2>3
  <2>4. CASE i = 4
    BY <1>1, <1>2, <1>6, <2>4
  <2> QED
    BY <2>1, <2>2, <2>3, <2>4
<1>7. ASSUME \A i \in 1 .. 4 : ~rules[i][1]
      PROVE  person[p].active /\ person[p].optedIn /\ ~InQuietHours(p, now) /\ BudgetLeft(p)
  BY <1>1, <1>7
<1> QED
  BY <1>5, <1>6, <1>7

(* Sending to somebody is permitted exactly when a grant covers them, they  *)
(* are active and have opted in, it is not their quiet time, and they have  *)
(* not been asked too often this week (rules R3 and R5 to R8).              *)
LEMMA SendPermitted ==
  ASSUME NEW d \in Duties, NEW p \in People
  PROVE  Allowed(Asking("send", d, p)) <=>
           /\ Covering("send", p)
           /\ person[p].active /\ person[p].optedIn
           /\ ~InQuietHours(p, now) /\ BudgetLeft(p)
<1> DEFINE a == Asking("send", d, p)
<1>1. a.class = "send" /\ a.person = p
  BY DEF Asking
<1>2. Rule(a) = IF ~Covering("send", p)
                  THEN IF Granted("send") THEN "R3-scope" ELSE "R3-none"
                  ELSE SendRule(a)
  BY <1>1 DEF Rule
<1> QED
  BY <1>2, SendRules DEF Allowed, Approvals

-----------------------------------------------------------------------------
(* What time alone does. *)

LEMMA OnlyTick ==
  ASSUME [Next]_vars, now' # now
  PROVE  Tick
BY DEF Next, StartSweep, Expired, AdvanceSweep, ToggleGrant, AskOnRequest, Accept, WriteAssignment,
       Withdraw, Decline, vars, rosterVars

(* Time alone never makes a gap: of what coverage looks at, only the age of *)
(* a confirmation depends on the clock, and it makes a duty at_risk.        *)
THEOREM TimeAloneMakesNoGap == Spec => TimeMakesNoGap
<1>1. ASSUME [Next]_vars PROVE TimeStep
  <2>1. ASSUME now' # now, NEW d \in Duties, NeedsFilling(d)'
        PROVE  NeedsFilling(d)
    <3>1. UNCHANGED <<person, holder, confirmedAt>>
      BY <1>1, <2>1, OnlyTick DEF Tick
    <3>2. BlackedOut(holder[d], d)' <=> BlackedOut(holder[d], d)
      BY <3>1 DEF BlackedOut
    <3> QED
      BY <2>1, <3>1, <3>2 DEF NeedsFilling, CoverageOf
  <2> QED
    BY <2>1 DEF TimeStep
<1>2. TimeStep /\ UNCHANGED vars => [TimeStep]_vars
  OBVIOUS
<1> QED
  BY <1>1, PTL DEF Spec, TimeMakesNoGap

-----------------------------------------------------------------------------
(* Eligibility against the gate, and against the night. *)

LEMMA EligibleFor ==
  ASSUME NEW d, NEW action, NEW p \in Candidates(d, action)
  PROVE  /\ p \in People
         /\ person[p].active
         /\ action = "send" => person[p].optedIn
         /\ BudgetLeft(p)
         /\ ~BlackedOut(p, d)
         /\ ~(now > NoticeDeadline(d))
         /\ ~(now <= NoticeDeadline(d) /\ NextContactable(p, now) > NoticeDeadline(d))
<1>1. p \in People /\ Reasons(p, d, action) = {}
  BY DEF Candidates, Eligible
<1>2. /\ "inactive" \notin Reasons(p, d, action)
      /\ "not_opted_in" \notin Reasons(p, d, action)
      /\ "ask_budget_exhausted" \notin Reasons(p, d, action)
      /\ "blackout" \notin Reasons(p, d, action)
      /\ "insufficient_notice" \notin Reasons(p, d, action)
      /\ "quiet_hours_block_notice" \notin Reasons(p, d, action)
  BY <1>1
<1>3. person[p].active
  BY <1>2 DEF Reasons
<1>4. action = "send" => person[p].optedIn
  BY <1>2 DEF Reasons
<1>5. BudgetLeft(p)
  BY <1>2 DEF Reasons
<1>6. ~BlackedOut(p, d)
  BY <1>2 DEF Reasons
<1>7. ~(now > NoticeDeadline(d))
  BY <1>2 DEF Reasons
<1>8. ~(now <= NoticeDeadline(d) /\ NextContactable(p, now) > NoticeDeadline(d))
  BY <1>2 DEF Reasons
<1> QED
  BY <1>1, <1>3, <1>4, <1>5, <1>6, <1>7, <1>8

(* eligibility.py and authority.py decide apart, and agree: whoever may be  *)
(* ranked for a message is refused it for the hour or the scope of the      *)
(* grant alone, whatever the state of the roster.                           *)
LEMMA RankedMayBeSent == GateAgrees
<1>1. ASSUME "send" \in GrantedLevels, NEW d \in Duties, NEW p \in Candidates(d, "send")
      PROVE  Rule(Asking("send", d, p)) \in {"R6-opted-in", "R7", "R3-scope"}
  <2>1. p \in People /\ person[p].active /\ person[p].optedIn /\ BudgetLeft(p)
    BY EligibleFor
  <2>2. Granted("send")
    BY <1>1 DEF GrantedLevels, Granted
  <2>3. SendRule(Asking("send", d, p)) \in {"R6-opted-in", "R7"}
    BY <2>1, SendRules
  <2>4. Rule(Asking("send", d, p)) \in {"R3-scope", SendRule(Asking("send", d, p))}
    BY <2>2 DEF Rule, Asking
  <2> QED
    BY <2>3, <2>4
<1> QED
  BY <1>1 DEF GateAgrees

(* Quiet hours end every day, a day after any moment at the latest.         *)
LEMMA NightEnds ==
  ASSUME NEW p \in People, person = InitialPerson, NEW t \in Int
  PROVE  \E later \in t .. (t + Day - 1) : ~InQuietHours(p, later)
<1> DEFINE quiet == person[p].quiet
           zone == person[p].zone
<1>0. Day \in Nat \ {0}
  BY RosterAssumption
<1>1. zone \in Int /\ quiet.start \in 0 .. (Day - 1) /\ quiet.end \in 0 .. (Day - 1)
  BY TimedAssumption
<1>2. ~Covers(quiet, quiet.end)
  BY <1>0, <1>1 DEF Covers
<1>3. PICK from \in Int : from = t + zone
  BY <1>1
<1>4. PICK there \in from .. (from + Day - 1) : there % Day = quiet.end
  <2>1. \A e \in 0 .. (Day - 1) : \E y \in from .. (from + Day - 1) : y % Day = e
    BY <1>0, HourComes
  <2> QED
    BY <1>1, <2>1
<1>5. PICK later \in Int : later = there - zone
  BY <1>0, <1>1, <1>3
<1>6. later \in t .. (t + Day - 1) /\ later + zone = there
  BY <1>0, <1>1, <1>3, <1>5
<1> QED
  BY <1>2, <1>4, <1>6 DEF InQuietHours, Local

(* "The ask will wait" (R7), and need not wait in vain: whom the night      *)
(* defers can be asked before it is too late, if the walk over the quiet    *)
(* hours found a moment, and also if it gave up (a day or more ahead).      *)
LEMMA NightIsWaited ==
  ASSUME TypeOK, person = InitialPerson
  PROVE  DeferralEnds
<1>1. ASSUME NEW d \in Duties, NEW p \in Candidates(d, "send"), InQuietHours(p, now)
      PROVE  \E t \in now .. NoticeDeadline(d) : ~InQuietHours(p, t)
  <2>0. now \in Int /\ NoticeDeadline(d) \in Int
    BY TimeAssumption DEF TypeOK, NoticeDeadline
  <2>1. /\ p \in People /\ now <= NoticeDeadline(d)
        /\ ~(NextContactable(p, now) > NoticeDeadline(d))
    BY <2>0, EligibleFor
  <2>2. person[p].quiet.enabled
    BY <1>1 DEF InQuietHours, Covers
  <2> DEFINE met == {c \in now .. (now + SearchHorizon - 1) :
                       (c - now) % Step = 0 /\ ~InQuietHours(p, c)}
  <2>3. CASE met = {}
    <3>1. NextContactable(p, now) = now + SearchHorizon
      BY <2>2, <2>3 DEF NextContactable
    <3>2. /\ Day \in Nat \ {0} /\ SearchHorizon \in Nat /\ SearchHorizon >= Day
          /\ now + Day - 1 <= NoticeDeadline(d)
      BY <2>0, <2>1, <3>1, RosterAssumption
    <3>3. PICK t \in now .. (now + Day - 1) : ~InQuietHours(p, t)
      BY <2>0, <2>1, NightEnds
    <3> QED
      BY <2>0, <3>2, <3>3
  <2>4. CASE met # {}
    <3>1. NextContactable(p, now) = Min(met)
      BY <2>2, <2>4 DEF NextContactable
    <3>2. Min(met) \in met
      <4>1. met \subseteq now .. (now + SearchHorizon - 1) /\ now + SearchHorizon - 1 \in Int
        BY <2>0, RosterAssumption
      <4> HIDE DEF met
      <4> QED
        BY <2>0, <2>4, <4>1, LeastThere
    <3> QED
      BY <2>0, <2>1, <3>1, <3>2
  <2> QED
    BY <2>3, <2>4
<1> QED
  BY <1>1 DEF DeferralEnds

-----------------------------------------------------------------------------
(* The gaps, soonest first. *)

LEMMA SoonerOrders ==
  /\ \A d \in Duties : ~Sooner(d, d)
  /\ \A d, e, f \in Duties : Sooner(d, e) /\ Sooner(e, f) => Sooner(d, f)
  /\ \A d, e \in Duties : d = e \/ Sooner(d, e) \/ Sooner(e, d)
<1>1. \A d \in Duties : ~Sooner(d, d)
  BY TimeAssumption DEF Sooner
<1>2. \A d, e, f \in Duties : Sooner(d, e) /\ Sooner(e, f) => Sooner(d, f)
  BY TimeAssumption DEF Sooner
<1>3. ASSUME NEW d \in Duties, NEW e \in Duties
      PROVE  d = e \/ Sooner(d, e) \/ Sooner(e, d)
  <2>1. /\ Shift[d].start \in Int /\ Shift[d].order \in Int
        /\ Shift[e].start \in Int /\ Shift[e].order \in Int
    BY TimeAssumption
  <2>2. Shift[d].order = Shift[e].order => d = e
    BY RosterAssumption
  <2> QED
    BY <2>1, <2>2 DEF Sooner
<1> QED
  BY <1>1, <1>2, <1>3

(* SoonestFirst lists a set of duties in order: each of them, no other, and *)
(* the sooner first (assess_roster).                                        *)
LEMMA SoonestFirstSorts ==
  ASSUME NEW S \in SUBSET Duties
  PROVE  /\ SoonestFirst(S) \in Seq(S)
         /\ \A d \in S : \E i \in DOMAIN SoonestFirst(S) : SoonestFirst(S)[i] = d
         /\ \A i, j \in DOMAIN SoonestFirst(S) :
              i < j => Sooner(SoonestFirst(S)[i], SoonestFirst(S)[j])
<1> DEFINE before(d) == {e \in S : Sooner(e, d)}
           n == Cardinality(S)
           rank == [d \in S |-> Cardinality(before(d))]
<1>1. IsFiniteSet(S) /\ n \in Nat
  <2>1. IsFiniteSet(Duties)
    BY RosterAssumption
  <2>2. IsFiniteSet(S)
    BY <2>1, FS_Subset
  <2> QED
    BY <2>2, FS_CardinalityType
<1>2. ASSUME NEW d \in S
      PROVE  IsFiniteSet(before(d)) /\ rank[d] \in 0 .. (n - 1)
  <2>1. IsFiniteSet(S \ {d}) /\ Cardinality(S \ {d}) = n - 1
    BY <1>1, FS_RemoveElement
  <2>2. before(d) \subseteq S \ {d}
    BY SoonerOrders
  <2>3. IsFiniteSet(before(d)) /\ Cardinality(before(d)) <= n - 1
    BY <2>1, <2>2, FS_Subset
  <2>4. Cardinality(before(d)) \in Nat
    BY <2>3, FS_CardinalityType
  <2> QED
    BY <1>1, <2>3, <2>4
<1>3. ASSUME NEW d \in S, NEW e \in S, Sooner(e, d)
      PROVE  rank[e] < rank[d]
  <2>1. before(e) \subseteq before(d)
    BY <1>3, SoonerOrders
  <2>2. before(e) # before(d)
    BY <1>3, SoonerOrders
  <2>3. IsFiniteSet(before(d)) /\ rank[d] \in Nat /\ rank[e] \in Nat
    BY <1>1, <1>2
  <2>4. /\ Cardinality(before(e)) <= Cardinality(before(d))
        /\ Cardinality(before(e)) # Cardinality(before(d))
    BY <2>1, <2>2, <2>3, FS_Subset
  <2> QED
    BY <2>3, <2>4
<1>4. ASSUME NEW d \in S, NEW e \in S, rank[d] = rank[e]
      PROVE  d = e
  <2>1. rank[d] \in Int /\ rank[e] \in Int
    <3>1. rank[d] \in 0 .. (n - 1) /\ rank[e] \in 0 .. (n - 1)
      BY <1>2
    <3> HIDE DEF rank, n
    <3> QED
      BY <1>1, <3>1
  <2>2. ~(rank[d] < rank[e]) /\ ~(rank[e] < rank[d])
    BY <1>4, <2>1
  <2>3. ~Sooner(d, e) /\ ~Sooner(e, d)
    BY <1>3, <2>2
  <2> QED
    BY <2>3, SoonerOrders
<1>5. \A i \in 0 .. (n - 1) : \E d \in S : rank[d] = i
  <2>1. IsFiniteSet(0 .. (n - 1)) /\ Cardinality(0 .. (n - 1)) = n
    BY <1>1, FS_Interval
  <2>2. rank \in Injection(S, 0 .. (n - 1))
    BY <1>2, <1>4 DEF Injection, IsInjective
  <2>3. rank \in Surjection(S, 0 .. (n - 1))
    BY <2>1, <2>2, FS_Injection
  <2> QED
    BY <2>3 DEF Surjection
<1> DEFINE nth(i) == CHOOSE d \in S : Cardinality(before(d)) = i - 1
<1>6. ASSUME NEW i \in 1 .. n
      PROVE  nth(i) \in S /\ rank[nth(i)] = i - 1
  <2>1. i - 1 \in 0 .. (n - 1)
    BY <1>1
  <2>2. \E d \in S : Cardinality(before(d)) = i - 1
    BY <1>5, <2>1
  <2>3. nth(i) \in S /\ Cardinality(before(nth(i))) = i - 1
    BY <2>2
  <2> QED
    BY <2>3
<1>7. SoonestFirst(S) = [i \in 1 .. n |-> nth(i)]
  BY DEF SoonestFirst
<1> HIDE DEF nth, rank, before, n
<1>8. SoonestFirst(S) \in Seq(S) /\ DOMAIN SoonestFirst(S) = 1 .. n
  BY <1>1, <1>6, <1>7
<1>9. ASSUME NEW d \in S
      PROVE  \E i \in DOMAIN SoonestFirst(S) : SoonestFirst(S)[i] = d
  <2>1. rank[d] + 1 \in 1 .. n
    BY <1>1, <1>2
  <2>2. nth(rank[d] + 1) = d
    BY <1>1, <1>2, <1>4, <1>6, <2>1
  <2> QED
    BY <1>7, <1>8, <2>1, <2>2
<1>10. ASSUME NEW i \in 1 .. n, NEW j \in 1 .. n, i < j
       PROVE  Sooner(nth(i), nth(j))
  <2>1. nth(i) \in S /\ nth(j) \in S /\ rank[nth(i)] < rank[nth(j)]
    BY <1>1, <1>6, <1>10
  <2>2. ~Sooner(nth(j), nth(i)) /\ nth(i) # nth(j)
    BY <1>2, <1>3, <2>1, <1>1
  <2> QED
    BY <2>1, <2>2, SoonerOrders
<1> QED
  BY <1>7, <1>8, <1>9, <1>10

LEMMA GapsAreNear ==
  /\ Gaps(HorizonDays) \in Seq(Duties)
  /\ \A i \in DOMAIN Gaps(HorizonDays) : NearGap(Gaps(HorizonDays)[i])
<1> DEFINE near == {d \in Duties : /\ NeedsFilling(d)
                                   /\ Shift[d].start > now
                                   /\ (Shift[d].start - now) \div Day <= HorizonDays}
<1>1. Gaps(HorizonDays) = SoonestFirst(near)
  BY DEF Gaps
<1>2. \A d \in near : NearGap(d)
  BY DEF NearGap
<1>3. SoonestFirst(near) \in Seq(near)
  BY SoonestFirstSorts
<1> HIDE DEF near
<1>4. \A i \in DOMAIN SoonestFirst(near) : SoonestFirst(near)[i] \in near
  BY <1>3
<1>5. near \subseteq Duties
  BY DEF near
<1>6. SoonestFirst(near) \in Seq(Duties)
  BY <1>3, <1>5
<1> QED
  BY <1>1, <1>2, <1>4, <1>6

-----------------------------------------------------------------------------
(* The ask rows. *)

(* What the budget rests on, whatever becomes of people.                    *)
BudgetInv ==
  /\ now \in Nat
  /\ ask \in [AskIds -> [state : AskStates, sent : Nat, expires : Int]]
  /\ IsFiniteSet(Written)
  /\ \A a \in AskIds : ask[a].state = "absent" => ask[a] = NoAsk
  /\ \A d \in Duties, p \in People : Emailed(d, p) => SentAt(d, p) \in 0 .. now
  /\ SlidingBudget

(* And what each ask was when it left, as long as people stay as they were. *)
RowsInv ==
  /\ BudgetInv
  /\ person = InitialPerson
  /\ \A d \in Duties, p \in People : Emailed(d, p) => SentWell(d, p)

(* A step adds one row, with leave to do so, or it changes the state of     *)
(* open rows, or time passes.                                               *)
AddsRow(kind, d, p, state) ==
  /\ ask[<<kind, d, p>>] = NoAsk
  /\ ask' = [ask EXCEPT ![<<kind, d, p>>] = NewAsk(d, state)]
  /\ now <= NoticeDeadline(d) /\ ~BlackedOut(p, d) /\ BudgetLeft(p)
  /\ kind = "email" => ~InQuietHours(p, now)

ClosesRows ==
  /\ ask' \in [AskIds -> [state : AskStates, sent : Nat, expires : Int]]
  /\ \A a \in AskIds :
       /\ ask'[a].sent = ask[a].sent /\ ask'[a].expires = ask[a].expires
       /\ ask'[a] = ask[a] \/ (ask[a].state = "sent" /\ ask'[a].state # "absent")

LEMMA AskingAdds ==
  ASSUME BudgetInv, NEW d \in Duties, AskNext(d, Chosen(d))
  PROVE  \/ ask' = ask
         \/ \E kind \in Kinds, p \in People, state \in {"sent", "withdrawn"} :
              AddsRow(kind, d, p, state)
<1>1. ASSUME NEW p \in Chosen(d)
      PROVE  /\ p \in People /\ now <= NoticeDeadline(d)
             /\ ~BlackedOut(p, d) /\ BudgetLeft(p)
  <2>1. p \in Candidates(d, BestAvailableAction)
    BY DEF Chosen, Foremost, First
  <2>2. now \in Int /\ NoticeDeadline(d) \in Int
    BY TimeAssumption DEF BudgetInv, NoticeDeadline
  <2> QED
    BY <2>1, <2>2, EligibleFor
<1>2. CASE AskNobody(d, Chosen(d))
  BY <1>2 DEF AskNobody
<1>3. ASSUME NEW p \in Chosen(d), DraftAsk(d, p), ask' # ask
      PROVE  AddsRow("draft", d, p, "sent")
  BY <1>1, <1>3 DEF DraftAsk, PutOnce, AddsRow
<1>4. ASSUME NEW p \in Chosen(d), NEW delivery \in Deliveries, SendAsk(d, p, delivery),
             ask' # ask
      PROVE  \E state \in {"sent", "withdrawn"} : AddsRow("email", d, p, state)
  <2>1. ~InQuietHours(p, now)
    BY <1>1, <1>4, SendPermitted DEF SendAsk
  <2>2. PICK state \in {"sent", "withdrawn"} : PutOnce(<<"email", d, p>>, NewAsk(d, state))
    BY <1>4 DEF SendAsk
  <2> QED
    BY <1>1, <1>4, <2>1, <2>2 DEF PutOnce, AddsRow
<1> QED
  BY <1>1, <1>2, <1>3, <1>4 DEF AskNext, Kinds

(* What a budget counts, and what a window of a week holds.                 *)
InWindow(p, first) ==
  {d \in Duties : Emailed(d, p) /\ SentAt(d, p) \in first .. (first + Week)}

LEMMA WindowsKept ==
  SlidingBudget <=>
    \A p \in People, first \in 0 .. now : Cardinality(InWindow(p, first)) <= Org.weeklyAsks
BY DEF SlidingBudget, InWindow

(* Who has budget left has been asked about fewer duties in the seven days  *)
(* to now than the ceiling allows.                                          *)
LEMMA BudgetBounds ==
  ASSUME BudgetInv, NEW p \in People, BudgetLeft(p),
         NEW D \in SUBSET Duties,
         \A d \in D : Emailed(d, p) /\ SentAt(d, p) >= now - Week
  PROVE  /\ IsFiniteSet(D) /\ Cardinality(D) \in Nat
         /\ Cardinality(D) + 1 <= Org.weeklyAsks
<1> DEFINE recent == {a \in EmailsTo(p) : ask[a].sent >= now - Week}
           to == [d \in D |-> <<"email", d, p>>]
<1>1. IsFiniteSet(recent)
  <2>1. recent \subseteq Written
    BY DEF EmailsTo, Written
  <2> QED
    BY <2>1, FS_Subset DEF BudgetInv
<1>2. to \in Injection(D, recent)
  <2>1. ASSUME NEW d \in D PROVE <<"email", d, p>> \in recent
    <3>1. <<"email", d, p>> \in AskIds
      BY DEF AskIds, Kinds
    <3>2. ask[<<"email", d, p>>].state # "absent"
      BY <3>1 DEF BudgetInv, Emailed
    <3> QED
      BY <3>1, <3>2 DEF EmailsTo, SentAt
  <2> QED
    BY <2>1 DEF Injection, IsInjective
<1>3. IsFiniteSet(D) /\ Cardinality(D) <= Cardinality(recent)
  BY <1>1, <1>2, FS_Injection
<1>4. Cardinality(D) \in Nat /\ Cardinality(recent) \in Nat
  BY <1>1, <1>3, FS_CardinalityType
<1>5. Cardinality(recent) < Org.weeklyAsks
  BY DEF BudgetLeft, AsksThisWeek
<1> HIDE DEF recent
<1> QED
  BY <1>3, <1>4, <1>5, TimeAssumption

LEMMA AddingBudget ==
  ASSUME BudgetInv, NEW kind \in Kinds, NEW d \in Duties, NEW p \in People,
         NEW state \in {"sent", "withdrawn"}, AddsRow(kind, d, p, state),
         UNCHANGED now
  PROVE  BudgetInv'
<1> DEFINE new == <<kind, d, p>>
<1>0. /\ new \in AskIds /\ now \in Nat /\ Week \in Nat
      /\ ask'[new] = NewAsk(d, state)
      /\ \A a \in AskIds \ {new} : ask'[a] = ask[a]
  <2>1. new \in AskIds
    BY DEF AskIds
  <2>2. Week \in Nat
    BY RosterAssumption DEF Week
  <2> QED
    BY <2>1, <2>2 DEF BudgetInv, AddsRow
<1>1. /\ NewAsk(d, state).state = state /\ NewAsk(d, state).sent = now
      /\ NewAsk(d, state).expires = now + AskWindowAt(d, now)
  BY DEF NewAsk, NewAskUntil
<1>2. ask' \in [AskIds -> [state : AskStates, sent : Nat, expires : Int]]
  <2>1. AskWindowAt(d, now) \in Int
    BY TimeAssumption DEF AskWindowAt
  <2>2. NewAsk(d, state) \in [state : AskStates, sent : Nat, expires : Int]
    BY <1>0, <2>1 DEF NewAsk, NewAskUntil, AskStates
  <2> QED
    BY <1>0, <2>2 DEF BudgetInv, AddsRow
<1>3. IsFiniteSet(Written')
  <2>1. Written' \subseteq Written \cup {new}
    BY <1>0 DEF Written
  <2>2. IsFiniteSet(Written \cup {new})
    BY FS_AddElement DEF BudgetInv
  <2> QED
    BY <2>1, <2>2, FS_Subset
<1>4. \A a \in AskIds : ask'[a].state = "absent" => ask'[a] = NoAsk
  BY <1>0, <1>1 DEF BudgetInv
<1>5. ASSUME NEW e \in Duties, NEW q \in People, Emailed(e, q)'
      PROVE  SentAt(e, q)' \in 0 .. now
  <2>0. <<"email", e, q>> \in AskIds
    BY DEF AskIds, Kinds
  <2>1. CASE <<"email", e, q>> = new
    BY <1>0, <1>1, <2>0, <2>1 DEF SentAt
  <2>2. CASE <<"email", e, q>> # new
    BY <1>0, <1>5, <2>0, <2>2 DEF SentAt, Emailed, BudgetInv
  <2> QED
    BY <2>1, <2>2
<1>6. ASSUME NEW q \in People, NEW first \in 0 .. now
      PROVE  Cardinality(InWindow(q, first)') <= Org.weeklyAsks
  <2>1. ASSUME NEW e \in Duties, <<"email", e, q>> # new
        PROVE  /\ Emailed(e, q)' <=> Emailed(e, q)
               /\ SentAt(e, q)' = SentAt(e, q)
    <3>1. <<"email", e, q>> \in AskIds
      BY DEF AskIds, Kinds
    <3>2. ask'[<<"email", e, q>>] = ask[<<"email", e, q>>]
      BY <1>0, <2>1, <3>1
    <3> QED
      BY <3>2 DEF Emailed, SentAt
  <2>2. CASE kind = "email" /\ q = p /\ now \in first .. (first + Week)
    <3> DEFINE others == InWindow(q, first)' \ {d}
    <3>1. \A e \in others : Emailed(e, q) /\ SentAt(e, q) >= now - Week
      <4>1. ASSUME NEW e \in others PROVE Emailed(e, q) /\ SentAt(e, q) >= now - Week
        <5>1. e \in Duties /\ Emailed(e, q)' /\ SentAt(e, q)' \in first .. (first + Week)
          BY <4>1 DEF InWindow
        <5>2. <<"email", e, q>> # new
          BY <4>1, <2>2
        <5> QED
          BY <1>0, <2>1, <2>2, <5>1, <5>2
      <4> QED
        BY <4>1
    <3>2. others \subseteq Duties /\ BudgetLeft(q)
      BY <2>2 DEF InWindow, AddsRow
    <3>3. /\ IsFiniteSet(others) /\ Cardinality(others) \in Nat
          /\ Cardinality(others) + 1 <= Org.weeklyAsks
      BY <3>1, <3>2, BudgetBounds
    <3>4. InWindow(q, first)' \subseteq others \cup {d}
      OBVIOUS
    <3> HIDE DEF others
    <3>5. /\ IsFiniteSet(others \cup {d})
          /\ Cardinality(others \cup {d}) <= Cardinality(others) + 1
      <4>1. /\ IsFiniteSet(others \cup {d})
            /\ Cardinality(others \cup {d}) \in {Cardinality(others), Cardinality(others) + 1}
        BY <3>3, FS_AddElement
      <4> QED
        BY <3>3, <4>1
    <3>6. /\ Cardinality(InWindow(q, first)') <= Cardinality(others \cup {d})
          /\ Cardinality(InWindow(q, first)') \in Nat /\ Cardinality(others \cup {d}) \in Nat
      BY <3>4, <3>5, FS_Subset, FS_CardinalityType
    <3> QED
      BY <3>3, <3>5, <3>6, TimeAssumption
  <2>3. CASE ~(kind = "email" /\ q = p /\ now \in first .. (first + Week))
    <3>1. ASSUME NEW e \in Duties
          PROVE  e \in InWindow(q, first)' <=> e \in InWindow(q, first)
      <4>1. CASE <<"email", e, q>> # new
        BY <2>1, <4>1 DEF InWindow
      <4>2. CASE <<"email", e, q>> = new
        <5>1. kind = "email" /\ e = d /\ q = p
          BY <4>2
        <5>2. ~Emailed(e, q)
          BY <4>2 DEF Emailed, AddsRow
        <5>3. SentAt(e, q)' = now
          BY <1>0, <1>1, <4>2 DEF SentAt
        <5> QED
          BY <2>3, <5>1, <5>2, <5>3 DEF InWindow
      <4> QED
        BY <4>1, <4>2
    <3>2. InWindow(q, first)' = InWindow(q, first)
      BY <3>1 DEF InWindow
    <3> QED
      BY <3>2, WindowsKept DEF BudgetInv
  <2> QED
    BY <2>2, <2>3
<1>7. SlidingBudget'
  BY <1>6 DEF SlidingBudget, InWindow
<1> QED
  BY <1>0, <1>2, <1>3, <1>4, <1>5, <1>7 DEF BudgetInv

LEMMA ClosingBudget ==
  ASSUME BudgetInv, ClosesRows, UNCHANGED now
  PROVE  BudgetInv'
<1>1. \A a \in AskIds : ask'[a].state = "absent" <=> ask[a].state = "absent"
  BY DEF ClosesRows
<1>2. \A a \in AskIds : ask'[a].state = "absent" => ask'[a] = NoAsk
  BY <1>1 DEF ClosesRows, BudgetInv
<1>3. IsFiniteSet(Written')
  <2>1. Written' = Written
    BY <1>1 DEF Written
  <2> QED
    BY <2>1 DEF BudgetInv
<1>4. ASSUME NEW d \in Duties, NEW p \in People
      PROVE  /\ Emailed(d, p)' <=> Emailed(d, p)
             /\ SentAt(d, p)' = SentAt(d, p)
             /\ ask'[<<"email", d, p>>].sent = ask[<<"email", d, p>>].sent
             /\ ask'[<<"email", d, p>>].expires = ask[<<"email", d, p>>].expires
  <2>1. <<"email", d, p>> \in AskIds
    BY DEF AskIds, Kinds
  <2>2. NoAsk.state = "absent"
    BY DEF NoAsk
  <2>3. Emailed(d, p)' <=> Emailed(d, p)
    BY <1>2, <2>1, <2>2 DEF Emailed, ClosesRows, BudgetInv
  <2> QED
    BY <2>1, <2>3 DEF SentAt, ClosesRows
<1>5. ASSUME NEW d \in Duties, NEW p \in People, Emailed(d, p)'
      PROVE  SentAt(d, p)' \in 0 .. now
  BY <1>4, <1>5 DEF BudgetInv
<1>6. SlidingBudget'
  <2>1. ASSUME NEW p \in People, NEW first \in 0 .. now
        PROVE  InWindow(p, first)' = InWindow(p, first)
    BY <1>4 DEF InWindow
  <2>2. ASSUME NEW p \in People, NEW first \in 0 .. now
        PROVE  Cardinality(InWindow(p, first)') <= Org.weeklyAsks
    BY <2>1, WindowsKept DEF BudgetInv
  <2> QED
    BY <2>2 DEF SlidingBudget, InWindow
<1> QED
  BY <1>2, <1>3, <1>5, <1>6 DEF BudgetInv, ClosesRows

LEMMA AgingBudget ==
  ASSUME BudgetInv, now' = now + 1, UNCHANGED ask
  PROVE  BudgetInv'
<1>0. now \in Nat /\ Week \in Nat
  BY RosterAssumption DEF BudgetInv, Week
<1>1. IsFiniteSet(Written')
  BY DEF Written, BudgetInv
<1>2. ASSUME NEW d \in Duties, NEW p \in People, Emailed(d, p)'
      PROVE  SentAt(d, p)' \in 0 .. now'
  BY <1>0, <1>2 DEF Emailed, SentAt, BudgetInv
<1>3. ASSUME NEW p \in People, NEW first \in 0 .. now'
      PROVE  Cardinality(InWindow(p, first)') <= Org.weeklyAsks
  <2>1. InWindow(p, first)' = InWindow(p, first)
    BY DEF InWindow, Emailed, SentAt
  <2>2. CASE first \in 0 .. now
    BY <2>1, <2>2, WindowsKept DEF BudgetInv
  <2>3. CASE first = now + 1
    <3>1. ASSUME NEW d \in InWindow(p, first) PROVE FALSE
      <4>1. d \in Duties /\ Emailed(d, p) /\ SentAt(d, p) \in first .. (first + Week)
        BY DEF InWindow
      <4>2. SentAt(d, p) \in 0 .. now
        BY <4>1 DEF BudgetInv
      <4> QED
        BY <1>0, <2>3, <4>1, <4>2
    <3>2. InWindow(p, first) = {}
      BY <3>1
    <3>3. Cardinality({}) = 0
      BY FS_EmptySet
    <3> QED
      BY <2>1, <3>2, <3>3, TimeAssumption
  <2> QED
    BY <1>0, <2>2, <2>3
<1>4. SlidingBudget'
  BY <1>3 DEF SlidingBudget, InWindow
<1> QED
  BY <1>0, <1>1, <1>2, <1>4 DEF BudgetInv

LEMMA AddingRows ==
  ASSUME RowsInv, NEW kind \in Kinds, NEW d \in Duties, NEW p \in People,
         NEW state \in {"sent", "withdrawn"}, AddsRow(kind, d, p, state),
         UNCHANGED <<now, person>>
  PROVE  RowsInv'
<1> DEFINE new == <<kind, d, p>>
<1>0. /\ new \in AskIds /\ now \in Nat /\ Week \in Nat
      /\ ask'[new] = NewAsk(d, state)
      /\ \A a \in AskIds \ {new} : ask'[a] = ask[a]
  <2>1. new \in AskIds
    BY DEF AskIds
  <2>2. Week \in Nat
    BY RosterAssumption DEF Week
  <2> QED
    BY <2>1, <2>2 DEF RowsInv, BudgetInv, AddsRow
<1>1. /\ NewAsk(d, state).state = state /\ NewAsk(d, state).sent = now
      /\ NewAsk(d, state).expires = now + AskWindowAt(d, now)
  BY DEF NewAsk, NewAskUntil
<1>2. BudgetInv'
  BY AddingBudget DEF RowsInv
<1>5. ASSUME NEW e \in Duties, NEW q \in People, Emailed(e, q)'
      PROVE  SentWell(e, q)'
  <2>0. <<"email", e, q>> \in AskIds
    BY DEF AskIds, Kinds
  <2>1. CASE <<"email", e, q>> = new
    <3>1. kind = "email" /\ e = d /\ q = p
      BY <2>1
    <3>2. ask'[<<"email", e, q>>] = NewAsk(d, state)
      BY <1>0, <2>1
    <3>3. ~InQuietHours(p, now) /\ ~BlackedOut(p, d) /\ now <= NoticeDeadline(d)
      BY <3>1 DEF AddsRow
    <3> QED
      BY <1>0, <1>1, <3>1, <3>2, <3>3 DEF SentWell, InQuietHours, BlackedOut, NoticeDeadline,
         AskWindowAt
  <2>2. CASE <<"email", e, q>> # new
    <3>1. ask'[<<"email", e, q>>] = ask[<<"email", e, q>>] /\ Emailed(e, q)
      BY <1>0, <1>5, <2>0, <2>2 DEF Emailed
    <3>2. SentWell(e, q)
      BY <3>1 DEF RowsInv
    <3> QED
      BY <3>1, <3>2 DEF SentWell, InQuietHours, BlackedOut, NoticeDeadline, AskWindowAt
  <2> QED
    BY <2>1, <2>2
<1> QED
  BY <1>2, <1>5 DEF RowsInv

LEMMA ClosingRows ==
  ASSUME RowsInv, ClosesRows, UNCHANGED <<now, person>>
  PROVE  RowsInv'
<1>1. \A a \in AskIds : ask'[a].state = "absent" <=> ask[a].state = "absent"
  BY DEF ClosesRows
<1>2. \A a \in AskIds : ask'[a].state = "absent" => ask'[a] = NoAsk
  BY <1>1 DEF ClosesRows, RowsInv, BudgetInv
<1>3. BudgetInv'
  BY ClosingBudget DEF RowsInv
<1>4. ASSUME NEW d \in Duties, NEW p \in People
      PROVE  /\ Emailed(d, p)' <=> Emailed(d, p)
             /\ SentAt(d, p)' = SentAt(d, p)
             /\ ask'[<<"email", d, p>>].sent = ask[<<"email", d, p>>].sent
             /\ ask'[<<"email", d, p>>].expires = ask[<<"email", d, p>>].expires
  <2>1. <<"email", d, p>> \in AskIds
    BY DEF AskIds, Kinds
  <2>2. NoAsk.state = "absent"
    BY DEF NoAsk
  <2>3. Emailed(d, p)' <=> Emailed(d, p)
    BY <1>2, <2>1, <2>2 DEF Emailed, ClosesRows, RowsInv, BudgetInv
  <2> QED
    BY <2>1, <2>3 DEF SentAt, ClosesRows
<1>5. ASSUME NEW d \in Duties, NEW p \in People, Emailed(d, p)'
      PROVE  SentWell(d, p)'
  <2>1. SentWell(d, p)
    BY <1>4, <1>5 DEF RowsInv
  <2> QED
    BY <1>4, <2>1 DEF SentWell, InQuietHours, BlackedOut, NoticeDeadline, AskWindowAt
<1> QED
  BY <1>3, <1>5 DEF RowsInv

LEMMA AgingRows ==
  ASSUME RowsInv, now' = now + 1, UNCHANGED <<ask, person>>
  PROVE  RowsInv'
<1>0. now \in Nat
  BY DEF RowsInv, BudgetInv
<1>1. BudgetInv'
  BY AgingBudget DEF RowsInv
<1>2. ASSUME NEW d \in Duties, NEW p \in People, Emailed(d, p)'
      PROVE  SentWell(d, p)'
  <2>1. Emailed(d, p)
    BY <1>2 DEF Emailed
  <2>2. SentWell(d, p)
    BY <2>1 DEF RowsInv
  <2> QED
    BY <1>0, <2>2 DEF SentWell, InQuietHours, BlackedOut, NoticeDeadline, AskWindowAt
<1> QED
  BY <1>1, <1>2 DEF RowsInv

LEMMA SupersedingCloses ==
  ASSUME ask \in [AskIds -> [state : AskStates, sent : Nat, expires : Int]],
         NEW d \in Duties, ask' \in {ask, Superseded(d)}
  PROVE  ClosesRows
<1>1. CASE ask' = ask
  BY <1>1 DEF ClosesRows
<1>2. CASE ask' = Superseded(d)
  <2>1. \A a \in AskIds :
          ask'[a] = IF a[2] = d /\ ask[a].state = "sent"
                      THEN [ask[a] EXCEPT !.state = "superseded"] ELSE ask[a]
    BY <1>2 DEF Superseded
  <2>2. "superseded" \in AskStates
    BY DEF AskStates
  <2>3. \A a \in AskIds : ask'[a] \in [state : AskStates, sent : Nat, expires : Int]
    BY <2>1, <2>2
  <2>4. ask' \in [AskIds -> [state : AskStates, sent : Nat, expires : Int]]
    BY <1>2, <2>3 DEF Superseded
  <2>5. \A a \in AskIds : ask[a] \in [state : AskStates, sent : Nat, expires : Int]
    OBVIOUS
  <2>6. \A a \in AskIds :
          /\ ask'[a].sent = ask[a].sent /\ ask'[a].expires = ask[a].expires
          /\ ask'[a] = ask[a] \/ (ask[a].state = "sent" /\ ask'[a].state # "absent")
    BY <2>1, <2>5
  <2> QED
    BY <2>4, <2>6 DEF ClosesRows
<1> QED
  BY <1>1, <1>2

LEMMA AnsweringCloses ==
  ASSUME ask \in [AskIds -> [state : AskStates, sent : Nat, expires : Int]],
         NEW d \in Duties, NEW p \in People, ask[<<"email", d, p>>].state = "sent",
         NEW state \in AskStates \ {"absent"},
         ask' = [ask EXCEPT ![<<"email", d, p>>].state = state]
  PROVE  ClosesRows
<1> DEFINE a == <<"email", d, p>>
<1>1. a \in AskIds
  BY DEF AskIds, Kinds
<1>2. ask[a] \in [state : AskStates, sent : Nat, expires : Int]
  BY <1>1
<1>3. /\ ask'[a] = [ask[a] EXCEPT !.state = state]
      /\ \A b \in AskIds \ {a} : ask'[b] = ask[b]
  BY <1>1
<1>4. ask' \in [AskIds -> [state : AskStates, sent : Nat, expires : Int]]
  BY <1>1, <1>2, <1>3
<1>5. ask'[a].sent = ask[a].sent /\ ask'[a].expires = ask[a].expires /\ ask'[a].state = state
  BY <1>2, <1>3
<1> QED
  BY <1>3, <1>4, <1>5 DEF ClosesRows

LEMMA LapsingCloses ==
  ASSUME ask \in [AskIds -> [state : AskStates, sent : Nat, expires : Int]],
         ask' = Expired
  PROVE  ClosesRows
<1>1. \A a \in AskIds :
        ask'[a] = IF ask[a].state = "sent" /\ ~IsOpen(a)
                    THEN [ask[a] EXCEPT !.state = "expired"] ELSE ask[a]
  BY DEF Expired
<1>2. \A a \in AskIds : ask[a] \in [state : AskStates, sent : Nat, expires : Int]
  OBVIOUS
<1>3. "expired" \in AskStates
  BY DEF AskStates
<1>4. \A a \in AskIds : ask'[a] \in [state : AskStates, sent : Nat, expires : Int]
  BY <1>1, <1>2, <1>3
<1>5. ask' \in [AskIds -> [state : AskStates, sent : Nat, expires : Int]]
  BY <1>4 DEF Expired
<1>6. \A a \in AskIds :
        /\ ask'[a].sent = ask[a].sent /\ ask'[a].expires = ask[a].expires
        /\ ask'[a] = ask[a] \/ (ask[a].state = "sent" /\ ask'[a].state # "absent")
  BY <1>1, <1>2
<1> QED
  BY <1>5, <1>6 DEF ClosesRows

-----------------------------------------------------------------------------
(* The inductive invariant. *)

LEMMA RowsOfInv == TimedInv => RowsInv
BY DEF TimedInv, RowsInv, BudgetInv, TypeOK, SentWell, SentAt

LEMMA NobodyAnswers ==
  ASSUME answering = None
  PROVE  AnswersInTime
BY RosterAssumption DEF AnswersInTime

LEMMA TimedInit == Init => TimedInv
<1> SUFFICES ASSUME Init PROVE TimedInv
  OBVIOUS
<1>1. \A a \in AskIds : ask[a] = NoAsk /\ NoAsk.state = "absent"
  BY DEF Init, NoAsk
<1>2. TypeOK
  <2>1. NoAsk \in [state : AskStates, sent : Nat, expires : Int]
    BY DEF NoAsk, AskStates
  <2>2. \A d \in Duties : confirmedAt[d] \in Nat \cup {None}
    BY DEF Init
  <2>3. queue \in Seq(Duties)
    BY DEF Init
  <2> QED
    BY <2>1, <2>2, <2>3, TimedAssumption DEF Init, TypeOK
<1>3. Written = {}
  BY <1>1 DEF Written
<1>4. IsFiniteSet({}) /\ Cardinality({}) = 0
  BY FS_EmptySet
<1>5. \A d \in Duties, p \in People : ~Emailed(d, p)
  BY <1>1 DEF Emailed, AskIds, Kinds
<1>6. SlidingBudget
  <2>1. \A p \in People, first \in 0 .. now : InWindow(p, first) = {}
    BY <1>5 DEF InWindow
  <2> QED
    BY <1>4, <2>1, WindowsKept, TimeAssumption
<1>7. AnswersInTime
  BY NobodyAnswers DEF Init
<1> QED
  BY <1>1, <1>2, <1>3, <1>4, <1>5, <1>6, <1>7 DEF TimedInv, Init

(* A step of the loop moves the rows in one of three ways, whoever takes it  *)
(* and whatever else it changes.                                            *)
RowsMove ==
  \/ UNCHANGED now /\ ClosesRows
  \/ /\ UNCHANGED now
     /\ \E kind \in Kinds, d \in Duties, p \in People, state \in {"sent", "withdrawn"} :
          AddsRow(kind, d, p, state)
  \/ now' = now + 1 /\ UNCHANGED ask

LEMMA StillCloses ==
  ASSUME BudgetInv, UNCHANGED ask
  PROVE  ClosesRows
BY DEF ClosesRows, BudgetInv

LEMMA NextMovesRows ==
  ASSUME TypeOK, BudgetInv, [Next]_vars
  PROVE  RowsMove
<1>1. ASSUME NEW d \in Duties, AskNext(d, Chosen(d)), UNCHANGED now
      PROVE  RowsMove
  <2>1. CASE ask' = ask
    BY <1>1, <2>1, StillCloses DEF RowsMove
  <2>2. CASE ask' # ask
    BY <1>1, <2>2, AskingAdds DEF RowsMove
  <2> QED
    BY <2>1, <2>2
<1>2. CASE AdvanceSweep(Chosen(Head(queue)))
  <2>1. Head(queue) \in Duties
    BY <1>2 DEF AdvanceSweep, TypeOK
  <2> QED
    BY <1>1, <1>2, <2>1 DEF AdvanceSweep
<1>3. ASSUME NEW d \in Duties, AskOnRequest(d, Chosen(d))
      PROVE  RowsMove
  BY <1>1, <1>3 DEF AskOnRequest
<1>4. CASE StartSweep
  <2>1. ClosesRows
    BY <1>4, LapsingCloses DEF StartSweep, BudgetInv
  <2> QED
    BY <1>4, <2>1 DEF StartSweep, Expired, RowsMove
<1>5. CASE Tick
  BY <1>5 DEF Tick, RowsMove
<1>6. ASSUME NEW d \in Duties, NEW p \in People, WriteAssignment(d, p) \/ Withdraw(d, p)
      PROVE  RowsMove
  <2>1. ask' \in {ask, Superseded(d)} /\ UNCHANGED now
    BY <1>6 DEF WriteAssignment, Withdraw
  <2>2. ClosesRows
    BY <2>1, SupersedingCloses DEF BudgetInv
  <2> QED
    BY <2>1, <2>2 DEF RowsMove
<1>7. ASSUME NEW d \in Duties, NEW p \in People, NEW accept \in BOOLEAN,
             Accept(d, p) \/ Decline(d, p, accept)
      PROVE  RowsMove
  <2>1. PICK state \in AskStates \ {"absent"} :
          ask' = [ask EXCEPT ![<<"email", d, p>>].state = state]
    BY <1>7 DEF Accept, Decline, Verdict, AskStates
  <2>2. ask[<<"email", d, p>>].state = "sent" /\ UNCHANGED now
    BY <1>7 DEF Accept, Decline
  <2>3. ClosesRows
    BY <2>1, <2>2, AnsweringCloses DEF BudgetInv
  <2> QED
    BY <2>2, <2>3 DEF RowsMove
<1>8. CASE UNCHANGED vars \/ \E g \in Revocable : ToggleGrant(g)
  <2>1. UNCHANGED <<now, ask>>
    BY <1>8 DEF vars, rosterVars, ToggleGrant
  <2> QED
    BY <2>1, StillCloses DEF RowsMove
<1> QED
  BY <1>2, <1>3, <1>4, <1>5, <1>6, <1>7, <1>8 DEF Next

LEMMA NextBudget ==
  ASSUME TypeOK, BudgetInv, [Next]_vars
  PROVE  BudgetInv'
BY NextMovesRows, AddingBudget, ClosingBudget, AgingBudget DEF RowsMove

LEMMA NextRows ==
  ASSUME TimedInv, [Next]_vars
  PROVE  RowsInv'
<1>1. RowsInv /\ BudgetInv /\ TypeOK
  BY RowsOfInv DEF RowsInv, TimedInv
<1>2. UNCHANGED person
  BY DEF Next, StartSweep, Expired, Tick, AdvanceSweep, ToggleGrant, AskOnRequest, AskNext,
     AskNobody, DraftAsk, SendAsk, Accept, Decline, WriteAssignment, Withdraw, vars, rosterVars
<1>3. RowsMove
  BY <1>1, NextMovesRows
<1> QED
  BY <1>1, <1>2, <1>3, AddingRows, ClosingRows, AgingRows DEF RowsMove

(* A sweep is under way, or somebody is being put on a duty, never both.    *)
LEMMA SweepsApart ==
  ASSUME TimedInv, queue # <<>>
  PROVE  \A d \in Duties, p \in People : answering # <<d, p>>
BY DEF TimedInv, AnswersInTime

LEMMA NextAnswers ==
  ASSUME TimedInv, [Next]_vars
  PROVE  AnswersInTime'
<1>1. ASSUME NEW d \in Duties, NEW p \in People, Accept(d, p)
      PROVE  AnswersInTime'
  <2>1. /\ answering' = <<d, p>> /\ queue' = <<>> /\ now' = now
        /\ ask' = [ask EXCEPT ![<<"email", d, p>>].state = "accepted"]
    BY <1>1 DEF Accept, Idle
  <2>2. /\ <<"email", d, p>> \in AskIds
        /\ ask[<<"email", d, p>>] \in [state : AskStates, sent : Nat, expires : Int]
    BY DEF AskIds, Kinds, TimedInv, TypeOK
  <2>3. now < ask[<<"email", d, p>>].expires
    BY <1>1 DEF Accept, Verdict, IsOpen
  <2>4. /\ ask'[<<"email", d, p>>].expires = ask[<<"email", d, p>>].expires
        /\ ask'[<<"email", d, p>>].state = "accepted"
    BY <2>1, <2>2 DEF TimedInv, TypeOK
  <2>5. Emailed(d, p)'
    BY <2>4 DEF Emailed, NoAsk
  <2>6. ASSUME NEW e \in Duties, NEW q \in People, answering' = <<e, q>>
        PROVE  e = d /\ q = p
    BY <2>1, <2>6
  <2> QED
    BY <2>1, <2>3, <2>4, <2>5, <2>6 DEF AnswersInTime
<1>2. ASSUME NEW d \in Duties, NEW p \in People, WriteAssignment(d, p)
      PROVE  AnswersInTime'
  BY <1>2, RosterAssumption DEF WriteAssignment, AnswersInTime
<1>3. CASE AdvanceSweep(Chosen(Head(queue)))
  BY <1>3, SweepsApart DEF AdvanceSweep, AnswersInTime
<1>4. CASE UNCHANGED vars
  BY <1>4 DEF TimedInv, AnswersInTime, vars, rosterVars, Emailed
<1>5. CASE Idle /\ UNCHANGED answering
  BY <1>5, RosterAssumption DEF Idle, AnswersInTime
<1> QED
  BY <1>1, <1>2, <1>3, <1>4, <1>5 DEF Next, StartSweep, Expired, Tick, ToggleGrant, AskOnRequest,
     Withdraw, Decline

LEMMA NextQueue ==
  ASSUME TimedInv, [Next]_vars
  PROVE  /\ queue' \in Seq(Duties)
         /\ (\A i \in DOMAIN queue : NearGap(queue[i]))'
<1>0. queue \in Seq(Duties) /\ \A i \in DOMAIN queue : NearGap(queue[i])
  BY DEF TimedInv, TypeOK
<1>1. CASE StartSweep
  <2> DEFINE found == Gaps(HorizonDays)
             n == Min({SweepLimit, Len(found)})
  <2>1. found \in Seq(Duties) /\ \A i \in DOMAIN found : NearGap(found[i])
    BY GapsAreNear
  <2>2. queue' = SubSeq(found, 1, n) /\ now' = now
    BY <1>1 DEF StartSweep, Expired
  <2> HIDE DEF found
  <2>3. n \in Nat /\ n <= Len(found)
    <3>1. SweepLimit \in Nat /\ Len(found) \in Nat
      BY <2>1, TimedAssumption
    <3> QED
      BY <3>1, PairMin
  <2> HIDE DEF n
  <2>4. queue' \in Seq(Duties) /\ \A i \in DOMAIN queue' : i \in DOMAIN found /\ queue'[i] = found[i]
    BY <2>1, <2>2, <2>3
  <2> QED
    BY <2>1, <2>2, <2>4 DEF NearGap
<1>2. CASE AdvanceSweep(Chosen(Head(queue)))
  <2>1. queue # <<>> /\ queue' = Tail(queue) /\ now' = now
    BY <1>2 DEF AdvanceSweep
  <2>2. /\ queue' \in Seq(Duties)
        /\ \A i \in DOMAIN queue' : i + 1 \in DOMAIN queue /\ queue'[i] = queue[i + 1]
    BY <1>0, <2>1
  <2> QED
    BY <1>0, <2>1, <2>2 DEF NearGap
<1>3. CASE Tick
  BY <1>3 DEF Tick, Idle
<1>4. CASE UNCHANGED <<now, queue>>
  BY <1>0, <1>4 DEF NearGap
<1> QED
  BY <1>1, <1>2, <1>3, <1>4 DEF Next, ToggleGrant, AskOnRequest, Withdraw, Decline, Accept,
     WriteAssignment, vars, rosterVars

(* Once a row is there it keeps its place: rows are added and change state,  *)
(* and what was accepted stays accepted.                                    *)
KeepsRows ==
  /\ ask' \in [AskIds -> [state : AskStates, sent : Nat, expires : Int]]
  /\ \A a \in AskIds : ask[a].state = "accepted" => ask'[a].state = "accepted"

LEMMA NextKeepsRows ==
  ASSUME TypeOK, [Next]_vars
  PROVE  KeepsRows
<1>0. ask \in [AskIds -> [state : AskStates, sent : Nat, expires : Int]] /\ now \in Nat
  BY DEF TypeOK
<1>1. ClosesRows => KeepsRows
  BY DEF ClosesRows, KeepsRows
<1>2. ask' = ask => KeepsRows
  BY <1>0 DEF KeepsRows
<1>3. ASSUME NEW d \in Duties, AskNext(d, Chosen(d))
      PROVE  KeepsRows
  <2>1. Chosen(d) \subseteq People
    BY DEF Chosen, Foremost, First, Candidates
  <2>2. ASSUME NEW kind \in Kinds, NEW p \in People, NEW state \in {"sent", "withdrawn"},
               PutOnce(<<kind, d, p>>, NewAsk(d, state))
        PROVE  KeepsRows
    <3> DEFINE a == <<kind, d, p>>
    <3>1. a \in AskIds
      BY DEF AskIds
    <3>2. NewAsk(d, state) \in [state : AskStates, sent : Nat, expires : Int]
      <4>1. AskWindowAt(d, now) \in Int
        BY TimeAssumption DEF AskWindowAt
      <4> QED
        BY <1>0, <4>1 DEF NewAsk, NewAskUntil, AskStates
    <3>3. ask[a] = NoAsk => ask[a].state # "accepted"
      BY DEF NoAsk
    <3>4. CASE ask[a] = NoAsk
      <4>1. ask' = [ask EXCEPT ![a] = NewAsk(d, state)]
        BY <2>2, <3>4 DEF PutOnce
      <4> HIDE DEF a
      <4> QED
        BY <1>0, <3>1, <3>2, <3>3, <3>4, <4>1 DEF KeepsRows
    <3>5. CASE ask[a] # NoAsk
      BY <1>2, <2>2, <3>5 DEF PutOnce
    <3> QED
      BY <3>4, <3>5
  <2>3. \/ ask' = ask
        \/ \E kind \in Kinds, p \in People, state \in {"sent", "withdrawn"} :
             PutOnce(<<kind, d, p>>, NewAsk(d, state))
    BY <1>3, <2>1 DEF AskNext, AskNobody, DraftAsk, SendAsk, Kinds
  <2> QED
    BY <1>2, <2>2, <2>3
<1>4. CASE AdvanceSweep(Chosen(Head(queue)))
  <2>1. Head(queue) \in Duties
    BY <1>4 DEF AdvanceSweep, TypeOK
  <2> QED
    BY <1>3, <1>4, <2>1 DEF AdvanceSweep
<1>5. ASSUME NEW d \in Duties, AskOnRequest(d, Chosen(d))
      PROVE  KeepsRows
  BY <1>3, <1>5 DEF AskOnRequest
<1>6. CASE StartSweep
  BY <1>0, <1>1, <1>6, LapsingCloses DEF StartSweep
<1>7. ASSUME NEW d \in Duties, NEW p \in People, WriteAssignment(d, p) \/ Withdraw(d, p)
      PROVE  KeepsRows
  <2>1. ask' \in {ask, Superseded(d)}
    BY <1>7 DEF WriteAssignment, Withdraw
  <2> QED
    BY <1>0, <1>1, <2>1, SupersedingCloses
<1>8. ASSUME NEW d \in Duties, NEW p \in People,
             Accept(d, p) \/ \E accept \in BOOLEAN : Decline(d, p, accept)
      PROVE  KeepsRows
  <2>1. PICK state \in AskStates \ {"absent"} :
          ask' = [ask EXCEPT ![<<"email", d, p>>].state = state]
    BY <1>8 DEF Accept, Decline, Verdict, AskStates
  <2>2. ask[<<"email", d, p>>].state = "sent"
    BY <1>8 DEF Accept, Decline
  <2> QED
    BY <1>0, <1>1, <2>1, <2>2, AnsweringCloses
<1>9. CASE UNCHANGED vars \/ Tick \/ \E g \in Revocable : ToggleGrant(g)
  BY <1>2, <1>9 DEF vars, rosterVars, ToggleGrant, Tick
<1> QED
  BY <1>4, <1>5, <1>6, <1>7, <1>8, <1>9 DEF Next

LEMMA NextTypes ==
  ASSUME TypeOK, [Next]_vars
  PROVE  TypeOK'
<1>0. queue' \in Seq(Duties)
  <2>1. CASE StartSweep
    <3>1. Gaps(HorizonDays) \in Seq(Duties)
      BY GapsAreNear
    <3>2. Min({SweepLimit, Len(Gaps(HorizonDays))}) \in Nat
               /\ Min({SweepLimit, Len(Gaps(HorizonDays))}) <= Len(Gaps(HorizonDays))
      <4>1. SweepLimit \in Nat /\ Len(Gaps(HorizonDays)) \in Nat
        BY <3>1, TimedAssumption
      <4> QED
        BY <4>1, PairMin
    <3>3. PICK found \in Seq(Duties), n \in Nat :
            queue' = SubSeq(found, 1, n) /\ n <= Len(found)
      BY <2>1, <3>1, <3>2 DEF StartSweep, Expired
    <3> QED
      BY <3>3
  <2>2. CASE AdvanceSweep(Chosen(Head(queue)))
    BY <2>2 DEF AdvanceSweep, TypeOK
  <2>3. CASE UNCHANGED queue
    BY <2>3 DEF TypeOK
  <2> QED
    BY <2>1, <2>2, <2>3 DEF Next, Tick, ToggleGrant, AskOnRequest, Withdraw, Decline, Accept,
       WriteAssignment, vars, rosterVars
<1>1. /\ now' \in Nat
      /\ ask' \in [AskIds -> [state : AskStates, sent : Nat, expires : Int]]
      /\ \A p \in People : person'[p].active \in BOOLEAN /\ person'[p].optedIn \in BOOLEAN
  <2>1. now' \in {now, now + 1} /\ person' = person
    BY DEF Next, StartSweep, Expired, Tick, AdvanceSweep, ToggleGrant, AskOnRequest, Accept,
       Decline, WriteAssignment, Withdraw, vars, rosterVars
  <2> QED
    BY <2>1, NextKeepsRows DEF KeepsRows, TypeOK
<1>2. /\ holder' \in [Duties -> People \cup {None}]
      /\ confirmedAt' \in [Duties -> Nat \cup {None}]
  <2>1. CASE UNCHANGED <<holder, confirmedAt>>
    BY <2>1 DEF TypeOK
  <2>2. ASSUME NEW d \in Duties, NEW p \in People, WriteAssignment(d, p) \/ Withdraw(d, p)
        PROVE  /\ holder' \in [Duties -> People \cup {None}]
               /\ confirmedAt' \in [Duties -> Nat \cup {None}]
    <3>1. PICK q \in People \cup {None}, at \in Nat \cup {None} :
            \/ UNCHANGED <<holder, confirmedAt>>
            \/ /\ holder' = [holder EXCEPT ![d] = q]
               /\ confirmedAt' = [confirmedAt EXCEPT ![d] = at]
      BY <2>2 DEF WriteAssignment, Withdraw, TypeOK
    <3> QED
      BY <2>1, <3>1 DEF TypeOK
  <2> QED
    BY <2>1, <2>2 DEF Next, StartSweep, Expired, Tick, AdvanceSweep, ToggleGrant, AskOnRequest,
       Accept, Decline, vars, rosterVars
<1>3. gone' \subseteq Duties \X People
  <2>1. CASE UNCHANGED gone
    BY <2>1 DEF TypeOK
  <2>2. ASSUME NEW d \in Duties, NEW p \in People, Withdraw(d, p)
        PROVE  gone' \subseteq Duties \X People
    BY <2>2 DEF Withdraw, TypeOK
  <2> QED
    BY <2>1, <2>2 DEF Next, StartSweep, Expired, Tick, AdvanceSweep, ToggleGrant, AskOnRequest,
       Accept, Decline, WriteAssignment, vars, rosterVars
<1>4. \A g \in grants' : g.level \in {"draft", "send", "write"}
  <2>1. CASE UNCHANGED grants
    BY <2>1 DEF TypeOK
  <2>2. ASSUME NEW g \in Revocable, ToggleGrant(g)
        PROVE  \A h \in grants' : h.level \in {"draft", "send", "write"}
    BY <2>2, TimedAssumption DEF ToggleGrant, TypeOK
  <2> QED
    BY <2>1, <2>2 DEF Next, StartSweep, Expired, Tick, AdvanceSweep, AskOnRequest, Accept, Decline,
       WriteAssignment, Withdraw, vars, rosterVars
<1>5. answering' \in (Duties \X People) \cup {None}
  <2>1. CASE UNCHANGED answering
    BY <2>1 DEF TypeOK
  <2>2. ASSUME NEW d \in Duties, NEW p \in People, Accept(d, p)
        PROVE  answering' \in (Duties \X People) \cup {None}
    BY <2>2 DEF Accept
  <2>3. ASSUME NEW d \in Duties, NEW p \in People, WriteAssignment(d, p)
        PROVE  answering' \in (Duties \X People) \cup {None}
    BY <2>3 DEF WriteAssignment
  <2> QED
    BY <2>1, <2>2, <2>3 DEF Next, StartSweep, Expired, Tick, AdvanceSweep, ToggleGrant,
       AskOnRequest, Withdraw, Decline, vars, rosterVars
<1> QED
  BY <1>0, <1>1, <1>2, <1>3, <1>4, <1>5 DEF TypeOK

LEMMA TimedNext ==
  ASSUME TimedInv, [Next]_vars
  PROVE  TimedInv'
BY NextRows, NextAnswers, NextQueue, NextTypes DEF TimedInv, RowsInv, BudgetInv

(* Of everything below, the invariant that the steps keep.                  *)
THEOREM TimedInvariant == Spec => []TimedInv
<1>1. TimedInv /\ UNCHANGED vars => TimedInv'
  BY TimedNext
<1> QED
  BY TimedInit, TimedNext, PTL DEF Spec

(* Every variable has its type.                                             *)
THEOREM TimedTypes == Spec => []TypeOK
<1>1. TimedInv => TypeOK
  BY DEF TimedInv
<1> QED
  BY TimedInvariant, <1>1, PTL

(* In no seven days, wherever they begin, does anybody get more asks than   *)
(* the organisation's ceiling: the gate counts the seven days up to the     *)
(* moment of sending (BudgetLeft), and every span of seven days that holds  *)
(* a new ask ends no earlier than it.                                       *)
THEOREM CeilingHolds == Spec => []SlidingBudget
<1>1. TimedInv => SlidingBudget
  BY DEF TimedInv
<1> QED
  BY TimedInvariant, <1>1, PTL

(* No ask leaves too late for its duty, in its reader's quiet hours, or     *)
(* about a time they blacked out.                                           *)
THEOREM AsksLeaveConsiderately == Spec => []AsksAreConsiderate
<1>1. TimedInv => AsksAreConsiderate
  BY DEF TimedInv, AsksAreConsiderate, SentWell, SentAt
<1> QED
  BY TimedInvariant, <1>1, PTL

(* In every state, whoever may be ranked for a message may be sent it, but  *)
(* for the hour and the scope of the grant.                                 *)
THEOREM GateAndRankingAgree == Spec => []GateAgrees
BY RankedMayBeSent, PTL

(* In every state, whom the night defers can still be asked in time.        *)
THEOREM NightNeverCostsADuty == Spec => []DeferralEnds
<1>1. TimedInv => DeferralEnds
  BY NightIsWaited DEF TimedInv
<1> QED
  BY TimedInvariant, <1>1, PTL

(* Nobody is put on a duty that has begun: fill.py looks at the ask alone,  *)
(* and an ask that left in time for the duty lapses before it starts.       *)
THEOREM JoinersAreInTime == Spec => JoinsBeforeStart
<1>1. ASSUME TimedInv, [Next]_vars
      PROVE  JoinStep
  <2>1. ASSUME NEW d \in Duties, holder'[d] \notin {None, holder[d]},
               Shift[d].minNotice >= Org.urgentWindow, Org.askWindow <= Org.urgentThreshold
        PROVE  now <= Shift[d].start
    <3>1. holder \in [Duties -> People \cup {None}]
      BY <1>1 DEF TimedInv, TypeOK
    <3>2. PICK e \in Duties, p \in People : WriteAssignment(e, p) \/ Withdraw(e, p)
      BY <1>1, <2>1 DEF Next, StartSweep, Expired, Tick, AdvanceSweep, ToggleGrant, AskOnRequest,
         Accept, Decline, vars, rosterVars
    <3>3. ~Withdraw(e, p)
      BY <2>1, <3>1 DEF Withdraw
    <3>4. d = e /\ answering = <<d, p>>
      BY <2>1, <3>1, <3>2, <3>3 DEF WriteAssignment
    <3> DEFINE row == ask[<<"email", d, p>>]
    <3>5. now < row.expires /\ SentWell(d, p)
      BY <1>1, <3>4 DEF TimedInv, AnswersInTime
    <3>6. PICK sent \in Int : sent = row.sent
      BY <1>1, <3>5 DEF SentWell, TimedInv, TypeOK
    <3>7. sent <= Shift[d].start - Shift[d].minNotice /\ now < sent + AskWindowAt(d, sent)
      BY <3>5, <3>6 DEF SentWell, NoticeDeadline
    <3>8. AskWindowAt(d, sent) =
            IF Shift[d].start - sent <= Org.urgentThreshold THEN Org.urgentWindow
            ELSE Org.askWindow
      BY DEF AskWindowAt
    <3>9. now \in Int
      BY <1>1 DEF TimedInv, TypeOK
    <3> QED
      BY <2>1, <3>6, <3>7, <3>8, <3>9, TimeAssumption
  <2> QED
    BY <2>1 DEF JoinStep
<1> QED
  BY <1>1, TimedInvariant, PTL DEF Spec, JoinsBeforeStart

(* A sweep asks about duties within its horizon, not yet begun: the gaps it *)
(* found when it started, at the same moment.                               *)
THEOREM SweepsLookAhead == Spec => SweepsWithinHorizon
<1>1. ASSUME TimedInv, [Next]_vars
      PROVE  SweepStep
  <2>1. ASSUME queue # <<>>, ask' # ask
        PROVE  /\ now < Shift[Head(queue)].start
               /\ Shift[Head(queue)].start < now + (HorizonDays + 1) * Day
    <3>1. Head(queue) \in Duties /\ 1 \in DOMAIN queue /\ Head(queue) = queue[1]
      BY <1>1, <2>1 DEF TimedInv, TypeOK
    <3>2. NearGap(Head(queue))
      BY <1>1, <3>1 DEF TimedInv
    <3>3. /\ now \in Int /\ Shift[Head(queue)].start \in Int
          /\ Day \in Nat \ {0} /\ HorizonDays \in Int
      BY <1>1, <3>1, TimeAssumption, RosterAssumption, TimedAssumption DEF TimedInv, TypeOK
    <3>4. Shift[Head(queue)].start - now < (HorizonDays + 1) * Day
      BY <3>2, <3>3, WithinDays DEF NearGap
    <3> DEFINE bound == (HorizonDays + 1) * Day
    <3>5. bound \in Int
      BY <3>3
    <3> HIDE DEF bound
    <3> QED
      BY <3>2, <3>3, <3>4, <3>5 DEF NearGap, bound
  <2> QED
    BY <2>1 DEF SweepStep
<1> QED
  BY <1>1, TimedInvariant, PTL DEF Spec, SweepsWithinHorizon
=============================================================================
