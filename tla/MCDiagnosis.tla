---------------------------- MODULE MCDiagnosis ----------------------------
(* Plans for TLC to run Diagnosis with.                                    *)
EXTENDS Diagnosis

\* checks.Default: every stage is one check.
DefaultPlan == <<<<"target">>, <<"environment">>, <<"dns">>, <<"route">>, <<"tcp">>,
                 <<"tls">>, <<"http">>>>

\* A plan given with WithPlan: stages of several checks, the stage of the
\* environment check cut by splitPlanAfterCheck.
ParallelPlan == <<<<"environment", "extra">>, <<"dns", "tcp", "tls">>, <<"http">>>>

\* A plan without an HTTP check is executed as one part.
WholePlan == <<<<"target", "environment">>, <<"dns", "tcp">>>>

AllPlans == {DefaultPlan, ParallelPlan, WholePlan}
=============================================================================
