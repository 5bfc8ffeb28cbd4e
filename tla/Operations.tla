----------------------------- MODULE Operations -----------------------------
(***************************************************************************)
(* The release-operations rules: evaluate_operations of                    *)
(* domain/rules/operations.py.                                             *)
(*                                                                         *)
(* The body of an issue is what _parse_sections makes of it:               *)
(*   readable               it is a text of bounded length                 *)
(*   before, during, after  "absent", "hollow" (a placeholder or an        *)
(*                          unchecked box), "filled", or "conflict" when   *)
(*                          the heading occurs with two different texts    *)
(*   migration              [is, run]: "absent", "conflict", "prose", or   *)
(*                          "check" when it is the URL of check run run of *)
(*                          this repository                                *)
(* The Markdown grammar behind these values is not modelled.               *)
(***************************************************************************)
EXTENDS Evidence

OperationsIssues(e) ==
  {x \in ValidIssues(e) : InCurrentRelease(x) /\ "ops" \in x.labels}

ReadableOperations(e) ==
  {x \in OperationsIssues(e) : x.number \notin InvalidBodies(e)}

SectionTextsLater(x) == {x.body.during, x.body.after}

SectionTexts(x) == {x.body.before, x.body.during, x.body.after}

(***************************************************************************)
(* _evaluate_migration: only a check run that is usable evidence can prove *)
(* the migration.  A run that is known but put aside proves neither.       *)
(***************************************************************************)
Migrations(e, is) == {x \in ReadableOperations(e) : x.body.migration.is = is}

Proved(e, x) ==
  \E c \in Usable(e.checks, e.candidate) :
    c.run = x.body.migration.run /\ Success(c)

UndecidedNever(e, x) == FALSE

Undecided(e, x) ==
  /\ \A c \in Usable(e.checks, e.candidate) : c.run # x.body.migration.run
  /\ \E c \in e.checks : c.run = x.body.migration.run

UnprovedMigrationsNone(e) == {}

UnprovedMigrations(e) ==
  {x \in Migrations(e, "check") : ~Proved(e, x) /\ ~Undecided(e, x)}

OperationsFindings(e) ==
  {Blocking("operations.owner_required", {x.number}) :
     x \in {y \in OperationsIssues(e) :
              y.owners = "none" /\ y.number \notin InvalidOwners(e)}}
  \cup {Blocking("operations.section_required", {x.number}) :
          x \in {y \in ReadableOperations(e) :
                   SectionTexts(y) \cap {"absent", "hollow"} # {}}}
  \cup {Blocking("operations.migration_evidence_required", {x.number}) :
          x \in UnprovedMigrations(e)}

OperationsCodes(e) ==
  IssueCodes(e)
  \cup CodesAt("operations.invalid_owner", InvalidOwners(e))
  \cup CodesAt("issue.invalid_body", InvalidBodies(e))
  \cup CodesAt("operations.conflicting_fields",
               {x.number : x \in {y \in ReadableOperations(e) :
                  \/ "conflict" \in SectionTexts(y)
                  \/ y.body.migration.is = "conflict"}})
  \cup CodesAt("migration.invalid_evidence",
               {x.number : x \in Migrations(e, "prose")})
  \cup (IF Migrations(e, "check") = {}
          THEN {} ELSE EvidenceCodes(e.checks, e.candidate))

EvaluateOperations(e) ==
  [findings |-> OperationsFindings(e), codes |-> OperationsCodes(e)]
=============================================================================
