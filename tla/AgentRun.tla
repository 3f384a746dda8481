------------------------------- MODULE AgentRun -------------------------------
(***************************************************************************)
(* The agent without a language model (agent/planner.py): a plan that      *)
(* reads the calls made so far and names the next, the hook that lets a    *)
(* call through or cancels it (agent/authority_hook.py), and the tools     *)
(* (agent/tools.py).  The world may change between the hook and the tool.  *)
(* Tools that no table lists (R14) are never called by the plan.           *)
(***************************************************************************)
EXTENDS Desk

CONSTANT PlanHorizon   \* days the plan looks ahead

VARIABLES
  running,   \* whether a run is under way
  history,   \* the calls of the run, in order
  approved   \* the call the hook let through and the tool has yet to do, or None

agentVars == <<running, history, approved>>

Use(tool, d) == [tool |-> tool, duty |-> d]

(* A call made: the rule that cancelled it (None: it ran) and, for a        *)
(* listing, the gaps it returned.                                           *)
Call(use, refused, gaps) ==
  [tool |-> use.tool, duty |-> use.duty, refused |-> refused, gaps |-> gaps]

-----------------------------------------------------------------------------
(* canonical_plan *)

Made(calls, tool) == {calls[i].duty : i \in {j \in DOMAIN calls : calls[j].tool = tool}}

GapsFrom(calls) ==
  LET listings == {i \in DOMAIN calls : calls[i].tool = "list_gaps"}
  IN IF listings = {} THEN <<>> ELSE calls[Min(listings)].gaps

Finish(calls) ==
  IF Made(calls, "write_handover_brief") = {}
    THEN Use("write_handover_brief", None) ELSE Use("say", None)

PlanAskingUntilDone(calls) ==                                        \* a mutant
  LET gaps == GapsFrom(calls)
      done == {calls[i].duty : i \in {j \in DOMAIN calls :
                 calls[j].tool = "ask_next_person" /\ calls[j].refused = None}}
      todo == {i \in DOMAIN gaps : gaps[i] \notin done}
  IN IF calls = <<>> THEN Use("list_gaps", None)
     ELSE IF todo = {} THEN Finish(calls)
     ELSE LET d == gaps[Min(todo)]
          IN IF d \notin Made(calls, "rank_candidates")
               THEN Use("rank_candidates", d) ELSE Use("ask_next_person", d)

Plan(calls) ==
  LET gaps == GapsFrom(calls)
      ranked == Made(calls, "rank_candidates")
      handled == Made(calls, "ask_next_person")
      todo == {i \in DOMAIN gaps : gaps[i] \notin ranked \cap handled}
  IN IF calls = <<>> THEN Use("list_gaps", None)
     ELSE IF todo = {} THEN Finish(calls)
     ELSE LET d == gaps[Min(todo)]
          IN IF d \notin ranked THEN Use("rank_candidates", d)
             ELSE Use("ask_next_person", d)

-----------------------------------------------------------------------------
(* TOOL_AUTHORITY and before_tool_call *)

Required(tool) ==
  CASE tool = "ask_next_person"   -> "send"
    [] tool = "record_withdrawal" -> "write"
    [] OTHER                      -> "read"

AcceptableStrictly(tool) == {Required(tool)}                         \* a mutant
Acceptable(tool) ==
  {Required(tool)} \cup (IF tool = "ask_next_person" THEN {"draft"} ELSE {})

HookAllows(tool) == Acceptable(tool) \cap GrantedLevels # {}

HookRule(use, p) == Rule(Asking(Required(use.tool), use.duty, p))

(* _refuse: the receipt's key ends in the id of the tool use.               *)
CancelCall(use, p, id) ==
  receipts' = Record(<<"hook_block", use.tool, HookRule(use, p), id>>,
                     Receipt(Required(use.tool), HookRule(use, p), "blocked", use.duty, p))

-----------------------------------------------------------------------------
StartRun ==
  /\ ~running
  /\ Begin
  /\ running' = TRUE
  /\ history' = <<>>
  /\ UNCHANGED <<vars, receipts, approved>>

Planning == running /\ approved = None /\ Plan(history).tool # "say"

ApproveUse ==
  /\ Planning
  /\ HookAllows(Plan(history).tool)
  /\ approved' = Plan(history)
  /\ UNCHANGED <<deskVars, running, history>>

(* The planner numbers its calls from one in every run.                     *)
RefuseUse ==
  LET use == Plan(history)
  IN /\ Planning
     /\ ~HookAllows(use.tool)
     /\ CancelCall(use, None, <<"plan", Len(history) + 1>>)
     /\ history' = Append(history, Call(use, HookRule(use, None), <<>>))
     /\ UNCHANGED <<vars, jobs, running, approved>>

(* The tool of the call: only ask_next_person changes anything.             *)
RunTool ==
  /\ approved # None
  /\ IF approved.tool = "ask_next_person"
       THEN AskNextPerson(approved.duty) ELSE UNCHANGED deskVars
  /\ history' = Append(history, Call(approved, None,
                  IF approved.tool = "list_gaps" THEN Gaps(PlanHorizon) ELSE <<>>))
  /\ approved' = None
  /\ UNCHANGED running

(* The plan has nothing left to do, or the process dies.                    *)
EndRun ==
  /\ running
  /\ running' = FALSE
  /\ history' = <<>>
  /\ approved' = None
  /\ UNCHANGED deskVars

AgentInit == running = FALSE /\ history = <<>> /\ approved = None

AgentNext == StartRun \/ ApproveUse \/ RefuseUse \/ RunTool \/ EndRun

-----------------------------------------------------------------------------
AgentTypeOK ==
  /\ running \in BOOLEAN
  /\ \A i \in DOMAIN history : history[i].refused \in {None} \cup Refusals
  /\ running \/ (history = <<>> /\ approved = None)

(* "a blocked ask ends the loop rather than being retried" (canonical_plan): *)
(* a run lists once, ranks and asks about each gap at most once, briefs     *)
(* once, whatever the tools and the hook answer.                            *)
RunIsShort ==
  /\ Len(history) <= 2 * Len(GapsFrom(history)) + 2
  /\ \A i, j \in DOMAIN history :
       history[i].tool = history[j].tool /\ history[i].duty = history[j].duty => i = j

(* The hook cancels no call that the gate behind it would have let do       *)
(* something: with sending revoked an ask still becomes a draft             *)
(* (ToolAuthority.degrades_to).                                             *)
HookFollowsGate ==
  /\ ~HookAllows("ask_next_person") =>
       \A d \in Duties : \A p \in Candidates(d, BestAvailableAction) :
         ~Allowed(Asking("send", d, p)) /\ ~Allowed(Asking("draft", d, p))
  /\ ~HookAllows("record_withdrawal") =>
       \A d \in Duties, p \in People : ~Allowed(Withdrawing(d, p))
=============================================================================
