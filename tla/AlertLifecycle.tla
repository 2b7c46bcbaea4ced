--------------------------- MODULE AlertLifecycle ---------------------------
(***************************************************************************)
(* What alerting promises to the clients that poll it                      *)
(* (docs/architecture.md, "Only transitions into firing and back to normal *)
(* create sensor_alert_events"): each rule is quiet or firing, each change *)
(* between the two adds exactly one event to the log in the same step,     *)
(* events are logged in the order of their times, and they leave the log   *)
(* only from the old end.  Nothing is said of workers, locks, measurements *)
(* or transactions.                                                        *)
(***************************************************************************)
EXTENDS Integers

CONSTANTS RuleId, Nil

VARIABLES
    alert,            \* [RuleId -> {"none", "quiet", "firing"}]
    log               \* set of [id, rule, type, at]

Init ==
    /\ alert = [r \in RuleId |-> "none"]
    /\ log = {}

Add(r) ==
    /\ alert[r] = "none"
    /\ alert' = [alert EXCEPT ![r] = "quiet"]
    /\ UNCHANGED log

\* The alert disappears, its events stay without it.
Remove(r) ==
    /\ alert[r] # "none"
    /\ alert' = [alert EXCEPT ![r] = "none"]
    /\ log' = {IF e.rule = r THEN [e EXCEPT !.rule = Nil] ELSE e : e \in log}

\* One new event, after all others in id order and not before any in time.
Logged(r, type) ==
    \E e \in log' :
        /\ log' = log \cup {e}
        /\ e.rule = r
        /\ e.type = type
        /\ \A f \in log : f.id < e.id /\ f.at =< e.at

Fire(r) ==
    /\ alert[r] = "quiet"
    /\ alert' = [alert EXCEPT ![r] = "firing"]
    /\ Logged(r, "firing")

Resolve(r) ==
    /\ alert[r] = "firing"
    /\ alert' = [alert EXCEPT ![r] = "quiet"]
    /\ Logged(r, "resolved")

\* Retention: whatever goes is older than everything that stays.
Expire ==
    /\ log' \subseteq log
    /\ \A e \in log \ log', f \in log' : e.at < f.at
    /\ UNCHANGED alert

Next ==
    \/ \E r \in RuleId : Add(r) \/ Remove(r) \/ Fire(r) \/ Resolve(r)
    \/ Expire

Spec == Init /\ [][Next]_<<alert, log>>
=============================================================================
