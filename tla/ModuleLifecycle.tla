-------------------------- MODULE ModuleLifecycle --------------------------
(***************************************************************************)
(* module/src: AppModuleConfigure, which calls the functions of a module   *)
(* and keeps its status.  The functions are the module's and may fail; up  *)
(* is what they have set up and not taken down.                            *)
(***************************************************************************)
VARIABLES
  object,   \* AppModuleConfigure: "none", "live", "gone", "thrown", or "wild"
  stop_,    \* what its pointer to the stop function is: "fn" or "wild"
  status,   \* info_->status
  up,       \* what the module has: a subset of {"init", "run"}
  excuses   \* history: why it may be left as it is, or with a wrong status

vars == <<object, stop_, status, up, excuses>>

\* The constructor initialises stop_ with itself: it is what the memory held,
\* null, the address of the function, or any other.
Construct ==
  /\ object = "none"
  /\ \/ object' = "thrown" /\ UNCHANGED stop_
     \/ object' = "live" /\ stop_' \in {"fn", "wild"}
  /\ UNCHANGED <<status, up, excuses>>

\* Nothing looks at the status first: the functions are to be called in order.
Ordered(before) == IF up = before THEN {} ELSE {"order"}

\* What is taken down in vain stays, and the status says that it does not.
Kept(ok) == IF ok THEN {} ELSE {"failed"}

init(ok) ==
  /\ object = "live"
  /\ up' = IF ok THEN up \cup {"init"} ELSE up
  /\ status' = IF ok THEN "inited" ELSE "uninit"
  /\ excuses' = excuses \cup Ordered({})
  /\ UNCHANGED <<object, stop_>>

run(ok) ==
  /\ object = "live"
  /\ up' = IF ok THEN up \cup {"run"} ELSE up
  /\ status' = IF ok THEN "runing" ELSE "unruning"
  /\ excuses' = excuses \cup Ordered({"init"})
  /\ UNCHANGED <<object, stop_>>

stop(ok) ==
  /\ object = "live" /\ stop_ = "fn"
  /\ up' = IF ok THEN up \ {"run"} ELSE up
  /\ status' = "unruning"
  /\ excuses' = excuses \cup Ordered({"init", "run"}) \cup Kept(ok)
  /\ UNCHANGED <<object, stop_>>

StopsNowhere ==
  /\ object = "live" /\ stop_ = "wild"
  /\ object' = "wild"
  /\ UNCHANGED <<stop_, status, up, excuses>>

exit(ok) ==
  /\ object = "live"
  /\ up' = IF ok THEN up \ {"init"} ELSE up
  /\ status' = "uninit"
  /\ excuses' = excuses \cup Ordered({"init"}) \cup Kept(ok)
  /\ UNCHANGED <<object, stop_>>

\* The destructor of a module that runs calls stop_ first.
DestroysNowhere == status = "runing" /\ StopsNowhere

\* Mutant: the destructor does not set the status between its two calls.
StatusKept == status

\* The status when the destructor has stopped what was running.
StatusStopped == IF status = "runing" THEN "inited" ELSE status

\* The destructor; a module that was stopped before is not exited.
Destroy(stops, exits) ==
  LET stopped == IF status = "runing" /\ stops THEN up \ {"run"} ELSE up
  IN  /\ object = "live"
      /\ status = "runing" => stop_ = "fn"
      /\ object' = "gone"
      /\ up' = IF StatusStopped = "inited" /\ exits THEN stopped \ {"init"} ELSE stopped
      /\ status' = StatusStopped
      /\ excuses' = excuses \cup Kept(stops) \cup Kept(exits)
                      \cup IF status = "unruning" THEN {"stopped"} ELSE {}
      /\ UNCHANGED stop_

Init ==
  /\ object = "none" /\ stop_ = "wild"
  /\ status = "uninit" /\ up = {}
  /\ excuses = {}

Next ==
  \/ Construct \/ StopsNowhere \/ DestroysNowhere
  \/ \E ok \in BOOLEAN : init(ok) \/ run(ok) \/ stop(ok) \/ exit(ok)
  \/ \E stops, exits \in BOOLEAN : Destroy(stops, exits)

Spec == Init /\ [][Next]_vars

-----------------------------------------------------------------------------
\* If the functions are called in order and nothing is taken down in vain, the
\* status tells what the module has, also after an init() or a run() that
\* failed; and the destructor leaves nothing, unless the module was stopped, or
\* could not be run, and was not exited.
StatusTells ==
  excuses = {} =>
    /\ object = "live" => up = CASE status = "uninit" -> {}
                                 [] status \in {"inited", "unruning"} -> {"init"}
                                 [] status = "runing" -> {"init", "run"}
    /\ object = "gone" => up = {}
=============================================================================
