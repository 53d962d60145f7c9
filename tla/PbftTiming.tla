----------------------------- MODULE PbftTiming -----------------------------
(***************************************************************************)
(* The one-shot Timeout of src/src/timing.rs.  The clock is not modelled:  *)
(* whether `Instant::now() - start > duration` holds when the timeout is   *)
(* polled is an input `elapsed` that the caller chooses.                   *)
(***************************************************************************)

\* enum TimeoutState
TimeoutStates == {"Active", "Inactive", "Expired"}

\* Timeout::new: a timeout starts Inactive.
NewTimeout == "Inactive"

\* Timeout::start and Timeout::stop: arm and disarm (the start instant is
\* the abstracted clock).
StartTimeout(t) == "Active"
StopTimeout(t) == "Inactive"

\* Timeout::is_expired: an Active timeout whose duration has elapsed turns
\* Expired; the state after the poll, and the poll's answer.
PollTimeout(t, elapsed) == IF t = "Active" /\ elapsed THEN "Expired" ELSE t
IsExpired(t, elapsed) == PollTimeout(t, elapsed) = "Expired"
=============================================================================
