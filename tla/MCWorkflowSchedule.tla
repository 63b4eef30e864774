---- MODULE MCWorkflowSchedule ----
EXTENDS WorkflowSchedule
====
