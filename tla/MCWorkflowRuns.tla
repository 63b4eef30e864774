---- MODULE MCWorkflowRuns ----
EXTENDS WorkflowRuns
\* A handler with every durable operation.
AllOperations == <<"sleep", "turn", "step", "timed", "event">>
====
