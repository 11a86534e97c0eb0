---------------------------- MODULE Investigation ----------------------------
(***************************************************************************)
(* A question from the form to its page                                    *)
(* (query-workspace/internal/workspace/workspace.go: Ask and               *)
(* validateAndExecute): Generation, the verdict of validateReadQuery,      *)
(* QueryExecutor and ResultPage, one after the other for the question that *)
(* is followed here, beside the generations of others.                     *)
(***************************************************************************)
EXTENDS Generation, ResultPage

CONSTANT Followed  \* the question that is followed

ASSUME FollowedAssumption == Followed \in Request

VARIABLE stage     \* investigation.Stage

investigation == <<generation, vars, stage>>

InvestigationInit ==
  /\ GenerationInit
  /\ Init
  /\ stage = "generate"

\* Generate returned Cypher that is not too long.
Generated ==
  /\ step[Followed] = "done"
  /\ outcome[Followed] = "success"
  /\ answer[Followed].text # "long"

\* Only Cypher that is accepted reaches the executor, whose context ends with that of the request.
Validate ==
  /\ stage = "generate"
  /\ Generated
  /\ stage' = IF answer[Followed].text = "forbidden" THEN "validate" ELSE "execute"
  /\ expired' = (over[Followed] = "canceled")
  /\ UNCHANGED <<generation, at, lost, readOnly, tx, finished, errors, collector, stream, ends>>

Execute == stage = "execute" /\ Next /\ UNCHANGED <<generation, stage>>

GenerateBeside(r) == Generate(r) /\ UNCHANGED <<vars, stage>>
ContextEndsBeside(r, why) == ContextEnds(r, why) /\ UNCHANGED <<vars, stage>>

InvestigationNext ==
  \/ \E r \in Request :
       \/ StartGeneration(r) /\ UNCHANGED <<vars, stage>>
       \/ GenerateBeside(r)
       \/ \E why \in {"deadline", "canceled"} : ContextEndsBeside(r, why)
  \/ Validate
  \/ Execute

\* The steps of a generation return: reading and calling by themselves or because the context
\* ends, the others because they do not wait for long.
Fairness == \A r \in Request : WF_investigation(GenerateBeside(r))

InvestigationSpec == InvestigationInit /\ [][InvestigationNext]_investigation /\ Fairness

\* Ask has returned.
Returned ==
  \/ stage = "generate" /\ step[Followed] = "done" /\ ~ Generated
  \/ stage = "validate"
  \/ stage = "execute" /\ at = "returned"

\* investigationView: the notices of the page.
Notices ==
  CASE stage = "generate" -> {IF outcome[Followed] = "success" THEN "not_executed"
                                                              ELSE "not_generated"}
    [] stage = "validate" -> {"rejected"}
    [] stage = "execute"  -> ExecutionNotices

-----------------------------------------------------------------------------
(***************************************************************************)
(* Properties.                                                             *)
(***************************************************************************)

\* The types of the variables.
InvestigationTypeOK ==
  /\ GenerationTypeOK
  /\ TypeOK
  /\ stage \in {"generate", "validate", "execute"}

\* README: output-limit, blocked, incomplete and malformed responses are not executed.  Nothing
\* reaches the database but a text the model finished, that decodes and that was accepted.
RunsOnlyComplete ==
  at # "beginning" =>
    LET a == answer[Followed]
    IN  a.kind = "response" /\ ~ a.blocked /\ a.finish \in {"", "STOP"} /\ a.text = "fit"

\* README: zero rows, incomplete output, partial execution failures and generation failures have
\* distinct notices.  Rows without a notice are all there is, of a query that read and was
\* committed; "matched nothing" is only said of one that returned no row; and where the page says
\* that nothing ran, the database never saw a transaction.
PageTellsAll ==
  Returned =>
    /\ Notices = {} => tx = "committed" /\ readOnly /\ rows = stream /\ rows # <<>>
    /\ "matched_nothing" \in Notices => Notices = {"matched_nothing"} /\ stream = <<>> /\ tx = "committed"
    /\ Notices \cap {"not_generated", "not_executed", "rejected"} # {} => tx = "none"
    /\ Cardinality(Notices \ {"truncated"}) <= 1

\* Every question that was sent comes back with an outcome: whoever fails while creating the
\* client, the others get their turn.
QuestionsEnd == \A r \in Request : step[r] # "idle" ~> step[r] = "done"

=============================================================================
