---------------------------- MODULE JEventSource ----------------------------
(***************************************************************************)
(* The life of a JEventSource as JEventSourceArrow drives it: Init, the     *)
(* Open that the first DoNext performs, the selection of events with       *)
(* nskip and nevents, and Close.  A source is a record of                  *)
(*   status  m_status                                                      *)
(*   count   m_event_count                                                 *)
(* and conf is its configuration: nskip, nevents, legacy (the callback     *)
(* style LegacyMode, in which the user implements GetEvent and not Emit)   *)
(* and entries, the number of events its resource holds.                   *)
(*                                                                         *)
(* answer is what the user's Emit or GetEvent does: it reads an entry,     *)
(* finds none ready, finds the end of the resource, or throws.             *)
(*                                                                         *)
(* A definition directly before the one it varies describes a faulty       *)
(* version of that code, and is used by no specification.                  *)
(***************************************************************************)
EXTENDS Naturals

NewSource == [status |-> "Uninitialized", count |-> 0]

Open(s) == IF s.status = "Initialized" THEN [s EXCEPT !.status = "Opened"] ELSE s

DoClose(s) == IF s.status = "Opened" THEN [s EXCEPT !.status = "Closed"] ELSE s

LimitIgnoringSkip(s, conf) == conf.nevents # 0 /\ s.count = conf.nevents

(* The nevents limit has been reached.                                     *)
AtLimit(s, conf) == conf.nevents # 0 /\ s.count = conf.nevents + conf.nskip

(* DoNext gets as far as asking the user for an event.                     *)
Asks(s, conf) == s.status = "Opened" /\ ~AtLimit(s, conf)

(* The answers of a user whose resource holds conf.entries events.         *)
Answers(s, conf) ==
    IF s.count < conf.entries THEN {"Success", "TryAgain", "Throw"}
    ELSE {"Finished"}

(* The event that s just read, if any, is one of the first nskip: the new  *)
(* interface compares the count after reading it, the old one before.      *)
Skips(s, conf) == s.count < conf.nskip

(* The source after DoNext, for s already open.                            *)
SourceAfter(s, conf, answer) ==
    CASE s.status = "Closed"                          -> s
      [] AtLimit(s, conf) \/ answer = "Finished"      -> DoClose(s)
      [] answer = "Success"                           -> [s EXCEPT !.count = @ + 1]
      [] OTHER                                        -> s

(* What DoNext returns.                                                    *)
ResultOf(s, conf, answer) ==
    CASE s.status = "Closed" \/ AtLimit(s, conf) \/ answer = "Finished"
                                                      -> "FailureFinished"
      [] answer = "Success" /\ ~Skips(s, conf)        -> "Success"
      [] answer = "Throw"                             -> "Throw"
      [] OTHER                                        -> "FailureTryAgain"

(* mEventSource is set before the user is asked, except for an event that  *)
(* the old interface skips.                                                *)
SetsSource(s, conf) == Asks(s, conf) /\ ~(conf.legacy /\ Skips(s, conf))

=============================================================================
