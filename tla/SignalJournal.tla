---- MODULE SignalJournal ----
(***************************************************************************)
(* What weather scans promise, with no sessions, locks or providers: a     *)
(* scan commits verdicts on whole markets, the last of which may be a new  *)
(* signal; it has that one decided before it commits any other, alerts it  *)
(* once decided, in a bounded number of deliveries until that is noted;    *)
(* and once it has broken off, nothing is done for it again.               *)
(***************************************************************************)
EXTENDS Naturals, Bags

CONSTANTS Scans,    \* the numbers of scans
          Telegram, \* an alert channel is configured
          Attempts  \* deliveries one alert may come to

VARIABLES estimates, rejections,  \* pairs and triples that begin with the scan
          signals,   \* records of a fingerprint and a scan
          decided,   \* fingerprints with a paper decision
          sent,      \* the bag of the fingerprints alerted
          alerted,   \* those whose alert is noted
          cut        \* scans that broke off

rows == <<estimates, rejections, signals>>
marks == <<decided, sent, alerted>>
journalVars == <<rows, marks, cut>>

Init ==
    /\ estimates = {} /\ rejections = {} /\ signals = {}
    /\ decided = {} /\ sent = EmptyBag /\ alerted = {}
    /\ cut = {}

(* The markets whose estimate has a verdict.                               *)
Judged(refusals, stored) ==
    {<<r[1], r[2]>> : r \in {r \in refusals : r[3] # "route"}}
        \cup {<<s.scan, s.fingerprint[1]>> : s \in stored}

AddsOnly(n, old, new) == old \subseteq new /\ \A row \in new \ old : row[1] = n

Commit(n) ==
    /\ \A s \in signals : s.scan = n => s.fingerprint \in decided
    /\ AddsOnly(n, estimates, estimates') /\ AddsOnly(n, rejections, rejections')
    /\ \/ signals' = signals
       \/ \E s \in signals' \ signals :
             /\ s.scan = n /\ \A t \in signals : t.fingerprint # s.fingerprint
             /\ signals' = signals \cup {s}
    /\ estimates' = Judged(rejections', signals')
    /\ UNCHANGED <<marks, cut>>

Decide(s) ==
    /\ s.fingerprint \notin decided
    /\ decided' = decided \cup {s.fingerprint}
    /\ UNCHANGED <<rows, sent, alerted, cut>>

Alert(s) ==
    /\ Telegram /\ s.fingerprint \in decided \ alerted
    /\ BagIn(s.fingerprint, sent) => sent[s.fingerprint] < Attempts
    /\ sent' = sent (+) SetToBag({s.fingerprint})
    /\ UNCHANGED <<rows, decided, alerted, cut>>

Note(s) ==
    /\ s.fingerprint \in BagToSet(sent)
    /\ alerted' = alerted \cup {s.fingerprint}
    /\ UNCHANGED <<rows, decided, sent, cut>>

BreakOff(n) ==
    /\ cut' = cut \cup {n}
    /\ UNCHANGED <<rows, marks>>

Next ==
    \E n \in Scans \ cut :
        \/ Commit(n) \/ BreakOff(n)
        \/ \E s \in {t \in signals : t.scan = n} : Decide(s) \/ Alert(s) \/ Note(s)

Spec == Init /\ [][Next]_journalVars
====
