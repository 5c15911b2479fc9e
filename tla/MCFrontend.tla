------------------------------ MODULE MCFrontend ------------------------------
EXTENDS Frontend

MCViews ==
  {[status |-> "PROCESSING", embedding |-> "none"], [status |-> "READY", embedding |-> "PROCESSING"],
   [status |-> "READY", embedding |-> "COMPLETED"], [status |-> "FAILED", embedding |-> "PROCESSING"]}
=============================================================================
