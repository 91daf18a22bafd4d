------------------------------- MODULE Notifier -------------------------------
(***************************************************************************)
(* Mailing of alarms.  notify() puts an event into a bounded queue; the    *)
(* notifier thread moves the queue into its own list and mails the list    *)
(* once a minute, through a relay or directly to the mail servers of the   *)
(* recipients' domains.  A list that could not be mailed is tried again.   *)
(***************************************************************************)
EXTENDS Integers, Sequences, FiniteSets, Functions

CONSTANTS
    Domains,                \* domains of the recipients
    QueueMax, PendingMax,   \* maxsize of _queue, _PENDING_MAX
    MaxAlarms               \* bound: events

\* Without a recipient nothing is mailed: send_email fails, as a relay may.
ASSUME NotifierAssumption ==
    /\ QueueMax \in Nat \ {0} /\ PendingMax \in Nat \ {0} /\ MaxAlarms \in Nat
    /\ Domains # {}

VARIABLES
    alarms,                 \* events so far, by number: warning or info
    mailQueue,              \* _queue
    pending,                \* the list of _loop
    copies,                 \* how often an event was mailed to a domain
    refused, trimmed,       \* history: full queue; cut off the list
    unwanted,               \* history: discarded as the settings say
    doubted                 \* history: mailed by an attempt that failed

mailVars == <<alarms, mailQueue, pending, copies, refused, trimmed, unwanted, doubted>>

Alarms == 1..MaxAlarms

MailTypeOK ==
    /\ alarms \in Seq({"warning", "info"})
    /\ mailQueue \in Seq(Alarms) /\ Len(mailQueue) <= QueueMax
    /\ pending \in Seq(Alarms)
    /\ copies \in [Alarms -> [Domains -> 0..3]]
    /\ refused \cup trimmed \cup unwanted \cup doubted \subseteq Alarms

MailInit ==
    /\ alarms = <<>> /\ mailQueue = <<>> /\ pending = <<>>
    /\ copies = [e \in Alarms |-> [d \in Domains |-> 0]]
    /\ refused = {} /\ trimmed = {} /\ unwanted = {} /\ doubted = {}

Room == Len(mailQueue) < QueueMax

\* notify, called by save_device_event: never blocks.
Notify(severity) ==
    /\ Len(alarms) < MaxAlarms
    /\ alarms' = Append(alarms, severity)
    /\ IF Room
       THEN mailQueue' = Append(mailQueue, Len(alarms')) /\ UNCHANGED refused
       ELSE refused' = refused \cup {Len(alarms')} /\ UNCHANGED mailQueue
    /\ UNCHANGED <<pending, copies, trimmed, unwanted, doubted>>

Collect ==
    /\ mailQueue # <<>>
    /\ pending' = pending \o mailQueue
    /\ mailQueue' = <<>>
    /\ UNCHANGED <<alarms, copies, refused, trimmed, unwanted, doubted>>

Wanted(minSeverity) ==
    {e \in Range(pending) : minSeverity = "info" \/ alarms[e] = "warning"}

Mailed(events, domains) ==
    [e \in Alarms |-> [d \in Domains |->
        IF e \in events /\ d \in domains THEN copies[e][d] + 1 ELSE copies[e][d]]]

Trim(seq) == IF Len(seq) > PendingMax THEN SubSeq(seq, Len(seq) - PendingMax + 1, Len(seq)) ELSE seq

\* Faulty variant: the list is dropped whether it was mailed or not.
RetryDropped == pending' = <<>> /\ UNCHANGED trimmed

\* The list is kept for the next minute, the oldest are cut off.
Retry ==
    /\ pending' = Trim(pending)
    /\ trimmed' = trimmed \cup (Range(pending) \ Range(pending'))

\* The list is done; what the settings leave out goes with it.
Done(events) ==
    /\ pending' = <<>>
    /\ unwanted' = unwanted \cup (Range(pending) \ events)
    /\ UNCHANGED trimmed

NothingToSend ==
    /\ pending # <<>>
    /\ \E minSeverity \in {"warning", "info"}, enabled \in BOOLEAN :
          /\ enabled => Wanted(minSeverity) = {}
          /\ Done({})
    /\ UNCHANGED <<alarms, mailQueue, copies, refused, doubted>>

\* The relay takes the mail or not; the session may still fail when it has.
SendByRelay ==
    /\ pending # <<>>
    /\ \E minSeverity \in {"warning", "info"} :
          LET events == Wanted(minSeverity) IN
          /\ events # {}
          /\ \/ copies' = Mailed(events, Domains) /\ Done(events) /\ UNCHANGED doubted
             \/ /\ UNCHANGED copies
                /\ Retry /\ UNCHANGED <<unwanted, doubted>>
             \/ /\ copies' = Mailed(events, Domains)
                /\ doubted' = doubted \cup events
                /\ Retry /\ UNCHANGED unwanted
    /\ UNCHANGED <<alarms, mailQueue, refused>>

\* _direct_send counts the recipients reached: one domain is enough.
DirectSucceeded(reached) == reached # {}

\* Of each domain its candidate servers are tried until one takes the mail.
SendDirectly ==
    /\ pending # <<>>
    /\ \E minSeverity \in {"warning", "info"}, reached \in SUBSET Domains :
          LET events == Wanted(minSeverity) IN
          /\ events # {}
          /\ copies' = Mailed(events, reached)
          /\ IF DirectSucceeded(reached)
             THEN Done(events) ELSE Retry /\ UNCHANGED unwanted
    /\ UNCHANGED <<alarms, mailQueue, refused, doubted>>

MailNext ==
    \/ \E s \in {"warning", "info"} : Notify(s)
    \/ Collect \/ NothingToSend \/ SendByRelay \/ SendDirectly

\* Three copies of an event are enough to see a repetition.
MailBound == \A e \in Alarms, d \in Domains : copies[e][d] < 3

MailSpec == MailInit /\ [][MailBound /\ MailNext]_mailVars

-----------------------------------------------------------------------------
(* Properties.                                                             *)

\* No alarm is lost without a trace: it waits, was mailed to somebody, or is
\* one that the full queue, the cut of the list or the settings account for.
AlarmsAreAccountedFor ==
    \A e \in DOMAIN alarms :
        \/ e \in Range(mailQueue) \cup Range(pending) \cup refused \cup trimmed \cup unwanted
        \/ \E d \in Domains : copies[e][d] > 0

\* What is cut off is older than what is kept.
NewestAreKept ==
    \A t \in trimmed, e \in Range(pending) : t < e

\* An alarm is mailed once to each domain: it is repeated only when a session
\* with the relay failed after the mail was accepted.  One that reached some
\* domains only is settled: the others never get it.
MailedOnce ==
    \A e \in Alarms \ doubted :
        /\ \A d \in Domains : copies[e][d] <= 1
        /\ e \in Range(pending) => \A d \in Domains : copies[e][d] = 0
=============================================================================
