--------------------------- MODULE MCExplanations ---------------------------
(***************************************************************************)
(* Explanations of a run with two warnings and two open findings, of which    *)
(* one may be accepted and either may be marked a release blocker.         *)
(***************************************************************************)
EXTENDS Explanations, TLC

CONSTANTS q1, q2, q3, p1, p2

Item(id, severity, action, evidence, stored) ==
  [id |-> id, severity |-> severity, action |-> action,
   evidence |-> evidence, stored |-> stored, safe |-> TRUE]

Lint  == Item("lint", "DECISION_REQUIRED", "decide", {"e2"}, TRUE)
Audit == Item("audit", "DECISION_REQUIRED", "decide", {"e2", "e3"}, TRUE)
Stale == Item("stale", "WARNING", "look", {"e4"}, TRUE)
Late  == Item("late", "WARNING", "look", {"e5"}, TRUE)
Blocked == Item("lint", "BLOCKING", "fix", {"e2"}, FALSE)

V(status, findings) == [status |-> status, findings |-> findings]

(* Accepting the last open finding makes the run READY.                    *)
MCAssessed == V("NEEDS_DECISION", {Lint, Audit, Stale, Late})
OneOpen    == V("NEEDS_DECISION", {Audit, Stale, Late})
Ready      == V("READY", {Stale, Late})
Refused    == V("NOT_READY", {Blocked, Audit, Stale, Late})

MCVerdicts == {MCAssessed, OneOpen, Ready, Refused}

MCDecided ==
  {<<MCAssessed, OneOpen>>, <<MCAssessed, Refused>>, <<OneOpen, Ready>>}

Part(key, value, findings) ==
  (key :> value) @@ ("findings" :> Ids(findings))
    @@ ("evidence" :> Evidence(findings))

Group(findings)  == Part("severity", (CHOOSE f \in findings : TRUE).severity, findings)
Action(findings) == Part("action", (CHOOSE f \in findings : TRUE).action, findings)

Output(groups, actions) ==
  LET all == UNION groups
  IN  [findings |-> Ids(all), evidence |-> Evidence(all),
       groups |-> {Group(g) : g \in groups},
       actions |-> {Action(a) : a \in actions}]

(* For each verdict one group for each severity; for the first also one    *)
(* for each finding, one that leaves a finding out and one that mixes      *)
(* severities.                                                             *)
Warned == Warnings(MCAssessed)

MCResponses ==
  {Output({{Lint, Audit}, Warned}, {{Lint, Audit}, Warned}),
   Output({{Lint}, {Audit}, Warned}, {{Lint, Audit}, Warned}),
   Output({{Audit}, Warned}, {{Audit}, Warned}),
   Output({Warned}, {Warned}),
   Output({{Lint, Audit} \cup Warned}, {{Lint, Audit}, Warned})}

MCHome == (q1 :> p1) @@ (q2 :> p1) @@ (q3 :> p2)
=============================================================================
