---------------------------- MODULE ApiRequests -----------------------------
(* What the parts of the control plane have in common. *)
CONSTANTS
  Requests,  \* API requests in progress, each with database sessions of its own
  None       \* SQL NULL, or no row
=============================================================================
