-------------------------- MODULE SubjectObserver --------------------------
(***************************************************************************)
(* A subject and its observers (objetto/utils/subject_observer.py): send   *)
(* calls the observers one after the other, in any order; an observer that *)
(* is being called may wait for another one's token, register and          *)
(* deregister observers, and fail.                                         *)
(*                                                                         *)
(* One thread calls send (the application's push, under its lock), so what *)
(* is being called is a stack.  A payload is not told apart from another.  *)
(***************************************************************************)
EXTENDS Naturals, Sequences

CONSTANT Observers

VARIABLES
    registered,   \* keys of __observers
    observing,    \* __observing: to be called in this send
    receiving,    \* __receiving: being called
    failed,       \* __failed
    sending,      \* __payload is not None
    infos,        \* observers of __exception_infos
    calls,        \* the calls of __observe__ in progress, innermost last
    audience      \* observers that were registered when this send started

subjectVars == <<registered, observing, receiving, failed, sending, infos, calls,
                 audience>>

\* A call is made by send or by the wait of the call below it; it has waited
\* for the observers of the tokens whose wait returned to it.
Call == [observer : Observers, by : {"send", "wait"}, waited : SUBSET Observers]

Caller     == calls[Len(calls)]
Return     == SubSeq(calls, 1, Len(calls) - 1)
Waited(o)  == [calls EXCEPT ![Len(calls)].waited = @ \cup {o}]
NewCall(o, by) == [observer |-> o, by |-> by, waited |-> {}]

-----------------------------------------------------------------------------
\* At any time, also by an observer during a send, or (deregistered) because
\* nobody refers to the observer any more.
Register(o) ==
    /\ o \notin registered
    /\ registered' = registered \cup {o}
    /\ UNCHANGED <<observing, receiving, failed, sending, infos, calls, audience>>

Deregister(o) ==
    /\ registered' = registered \ {o}
    /\ UNCHANGED <<observing, receiving, failed, sending, infos, calls, audience>>

\* send, which refuses (and changes nothing) while the subject is sending.
Send ==
    /\ ~ sending
    /\ observing' = registered
    /\ audience' = registered
    /\ sending' = TRUE
    /\ UNCHANGED <<registered, receiving, failed, infos, calls>>

\* (mutant) The loop looks at the next observer and leaves it in the set.
LeftInObserving(o) == observing

TakenFromObserving(o) == observing \ {o}

\* The loop of send: call any observer not called yet.
Notify(o) ==
    /\ sending /\ calls = <<>>
    /\ o \in observing
    /\ observing' = TakenFromObserving(o)
    /\ receiving' = receiving \cup {o}
    /\ calls' = <<NewCall(o, "send")>>
    /\ UNCHANGED <<registered, failed, sending, infos, audience>>

\* (mutant) wait calls an observer that send will call again.
LeftForSend(o) == observing

TakenByWait(o) == observing \ {o}

\* wait for an observer not called yet: call it.
WaitAndNotify(o) ==
    /\ calls # <<>>
    /\ o \in observing /\ o \notin receiving /\ o \notin failed
    /\ observing' = TakenByWait(o)
    /\ receiving' = receiving \cup {o}
    /\ calls' = Append(calls, NewCall(o, "wait"))
    /\ UNCHANGED <<registered, failed, sending, infos, audience>>

\* (mutant) An observer that failed is taken for one that received.
NothingToDoButFailed(o) == o \notin receiving /\ o \notin observing

NothingToDo(o) == o \notin receiving /\ o \notin failed /\ o \notin observing

\* wait for an observer that has received, or is not to be told: return.
\* (wait for one in receiving - a cycle - or in failed raises: nothing changes,
\* and the caller goes on or fails.)
WaitForNothing(o) ==
    /\ calls # <<>>
    /\ NothingToDo(o)
    /\ calls' = Waited(o)
    /\ UNCHANGED <<registered, observing, receiving, failed, sending, infos,
                   audience>>

\* __observe__ returns, to send or to the wait that called it, which returns.
Received ==
    /\ calls # <<>>
    /\ receiving' = receiving \ {Caller.observer}
    /\ calls' = IF Caller.by = "wait"
                THEN [Return EXCEPT ![Len(calls) - 1].waited
                                      = @ \cup {Caller.observer}]
                ELSE Return
    /\ UNCHANGED <<registered, observing, failed, sending, infos, audience>>

\* (mutant) wait reports the exception and lets its observer pass as received.
OnlySendFails(o) == IF Caller.by = "send" THEN failed \cup {o} ELSE failed

Failing(o) == failed \cup {o}

\* __observe__ raises an exception, its own or one a wait raised.  send goes on
\* with the next observer; a wait raises in the call that waits.
Fail ==
    /\ calls # <<>>
    /\ receiving' = receiving \ {Caller.observer}
    /\ failed' = Failing(Caller.observer)
    /\ infos' = Append(infos, Caller.observer)
    /\ calls' = Return
    /\ UNCHANGED <<registered, observing, sending, audience>>

AllNotified == calls = <<>> /\ observing = {}

\* (mutant) Failures of this send are remembered in the next one.
KeepFailed == observing' = {} /\ receiving' = {} /\ UNCHANGED failed

Clear == observing' = {} /\ receiving' = {} /\ failed' = {}

\* send returns the exception infos.
FinishSend ==
    /\ sending /\ AllNotified
    /\ sending' = FALSE
    /\ Clear
    /\ infos' = <<>>
    /\ audience' = {}
    /\ UNCHANGED <<registered, calls>>

-----------------------------------------------------------------------------
SubjectInit ==
    /\ registered = {} /\ observing = {} /\ receiving = {} /\ failed = {}
    /\ sending = FALSE
    /\ infos = <<>> /\ calls = <<>>
    /\ audience = {}

SubjectNext ==
    \/ \E o \in Observers :
        \/ Register(o)
        \/ Deregister(o)
        \/ Notify(o)
        \/ WaitAndNotify(o)
        \/ WaitForNothing(o)
    \/ Send
    \/ Received
    \/ Fail
    \/ FinishSend

\* The loop of send runs to its end, and so does the code of every observer.
\* Nobody has to send, wait, register or deregister.
Fairness ==
    /\ WF_subjectVars(\E o \in Observers : Notify(o))
    /\ WF_subjectVars(Received \/ Fail)
    /\ WF_subjectVars(FinishSend)

SubjectSpec == SubjectInit /\ [][SubjectNext]_subjectVars /\ Fairness

-----------------------------------------------------------------------------
SubjectTypeOK ==
    /\ registered \subseteq Observers /\ observing \subseteq Observers
    /\ receiving \subseteq Observers /\ failed \subseteq Observers
    /\ audience \subseteq Observers
    /\ sending \in BOOLEAN
    /\ infos \in Seq(Observers)
    /\ calls \in Seq(Call)

\* Who has received this payload without failing.
Done == audience \ (observing \cup receiving \cup failed)

\* An observer is told a payload once: the observers being called are those
\* marked as receiving, each called once, and neither still to be called nor
\* failed already - whoever called them.
ToldOnce ==
    /\ receiving = {calls[i].observer : i \in DOMAIN calls}
    /\ \A i, j \in DOMAIN calls : calls[i].observer = calls[j].observer => i = j
    /\ observing \cap receiving = {}
    /\ failed \cap (observing \cup receiving) = {}

\* "Wait for the token's observer to receive the payload before continuing":
\* the call of an observer whose wait returned runs after the observer it
\* waited for has received, if that one was registered when the send started.
WaitsHonoured ==
    \A i \in DOMAIN calls : calls[i].waited \cap audience \subseteq Done

\* The exceptions of a send are those of the observers that failed, one each,
\* although an exception may pass through every call that waits for it.
FailuresReportedOnce ==
    /\ failed = {infos[i] : i \in DOMAIN infos}
    /\ \A i, j \in DOMAIN infos : infos[i] = infos[j] => i = j

\* Nothing of a send is left to the next one: an observer that failed once can
\* be waited for again.
CleanBetweenSends ==
    ~ sending => /\ observing = {} /\ receiving = {} /\ failed = {}
                 /\ infos = <<>> /\ calls = <<>> /\ audience = {}

\* Every send returns, whatever its observers wait for and register, and every
\* observer registered when it starts is called in it, also after others failed or
\* when it was deregistered meanwhile.
SendCompletes ==
    /\ sending ~> ~ sending
    /\ \A o \in Observers : o \in observing ~> o \in receiving
=============================================================================
