---------------------------- MODULE VoiceSession ----------------------------
(* The conversation page of the browser: the voice controller, the speech recognizer it starts and      *)
(* stops, the queue of spoken answers, and the page that submits turns and polls for their answers. A   *)
(* JavaScript callback is one step. A turn, its Run and its submission share one number.                *)
EXTENDS Naturals, Sequences, FiniteSets

CONSTANTS MaxTurns,       \* bound on the turns submitted
          MaxAttempts,    \* bound on the recognition sessions started
          MaxRearms,      \* MAX_HANDS_FREE_REARMS
          MaxRetries      \* bound on retries by hand

VARIABLES ctl,        \* VoiceController
          rec,        \* the browser's recognizers, by attempt
          attempts,
          tts,        \* TtsQueue: queued answers and the utterance that is current
          utter,      \* utterances the browser has, and what it did with them
          page,       \* the run that owns the session, and the runs whose answer may be spoken
          sub,        \* submissions
          run,        \* the server's Runs (the newest attempt of each)
          known,      \* answers as the page has them
          cached,     \* runs whose answer is settled and no longer fetched
          listed,     \* turns in the transcript
          cancels,    \* cancellation requests under way
          retrying,   \* retry requests under way
          retries,
          silenced    \* history: turns the person interrupted

vars == <<ctl, rec, attempts, tts, utter, page, sub, run, known, cached, listed, cancels,
          retrying, retries, silenced>>

Turns == 1..MaxTurns
Attempts == 1..MaxAttempts
States == {"idle", "listening", "finalizing", "submitting", "processing", "awaiting_approval", "speaking", "error"}
AnswerState == {"pending", "awaiting_approval", "answered", "failed", "cancelled"}
Settled == {"answered", "failed", "cancelled"}

Controller == [st : States, hf : BOOLEAN, active : 0..MaxAttempts, failed : 0..MaxAttempts,
               pending : 0..MaxAttempts, text : BOOLEAN, rearms : 0..MaxRearms, silence : 0..MaxAttempts]

TypeOK ==
  /\ ctl \in Controller /\ attempts \in 0..MaxAttempts
  /\ rec \in [Attempts -> {"off", "on", "stopping", "aborted"}]
  /\ tts.items \in Seq(Turns) /\ tts.now \in 0..MaxTurns
  /\ utter \in [Turns -> {"none", "queued", "playing", "over"}]
  /\ page.active \in 0..MaxTurns /\ page.speakable \subseteq Turns
  /\ sub \in [Turns -> [at : {"none", "sent", "stored", "done"}, page : BOOLEAN, ctl : BOOLEAN]]
  /\ run \in [Turns -> AnswerState \union {"none"}] /\ known \in [Turns -> AnswerState]
  /\ \A set \in {cached, listed, cancels, silenced} : set \subseteq Turns
  /\ retrying \in [Turns -> {"no", "owned", "stale"}] /\ retries \in 0..MaxRetries

Init ==
  /\ ctl = [st |-> "idle", hf |-> FALSE, active |-> 0, failed |-> 0, pending |-> 0, text |-> FALSE,
            rearms |-> 0, silence |-> 0]
  /\ rec = [a \in Attempts |-> "off"] /\ attempts = 0
  /\ tts = [items |-> <<>>, now |-> 0] /\ utter = [t \in Turns |-> "none"]
  /\ page = [active |-> 0, speakable |-> {}]
  /\ sub = [t \in Turns |-> [at |-> "none", page |-> TRUE, ctl |-> TRUE]]
  /\ run = [t \in Turns |-> "none"] /\ known = [t \in Turns |-> "pending"]
  /\ cached = {} /\ listed = {} /\ cancels = {} /\ retrying = [t \in Turns |-> "no"] /\ retries = 0 /\ silenced = {}

-----------------------------------------------------------------------------
(* The devices. `voice` is the controller with the devices it drives; the operators below map one to    *)
(* the next, so that a callback is their composition.                                                   *)
Voice == [c |-> ctl, rec |-> rec, n |-> attempts, tts |-> tts, utter |-> utter]

(* The adapter's stop and abort reach the recognizer started last, unless it has ended. *)
Recognizer(v, to) ==
  [v EXCEPT !.rec = [a \in Attempts |-> IF a = v.n /\ v.rec[a] \in {"on", "stopping"} THEN to ELSE v.rec[a]]]

(* TtsQueue.stop: the queue is emptied and the current generation invalidated before cancel. *)
StopOutput(v) ==
  [v EXCEPT !.tts = [items |-> <<>>, now |-> 0],
            !.utter = [t \in Turns |-> IF v.utter[t] \in {"queued", "playing"} THEN "over" ELSE v.utter[t]]]

Say(v, t) == [v EXCEPT !.tts.now = t, !.utter[t] = "queued"]

(* TtsQueue.speak *)
Speak(v, t) == IF v.tts.now = 0 THEN Say(v, t) ELSE [v EXCEPT !.tts.items = Append(@, t)]

StopOutputAndRecognition(v) ==
  LET silent == StopOutput(Recognizer(v, "aborted"))
  IN [silent EXCEPT !.c.active = 0, !.c.failed = 0, !.c.pending = 0, !.c.st = "idle"]

CanBegin(v) == v.n < MaxAttempts

Begin(v) ==
  [v EXCEPT !.n = @ + 1, !.rec[v.n + 1] = "on", !.c.active = v.n + 1, !.c.failed = 0, !.c.text = FALSE,
            !.c.st = "listening"]

(* Hands-free listening goes on after an answer; the bound on attempts stands for the person leaving.   *)
BeginHandsFree(v) == IF v.c.hf /\ CanBegin(v) THEN Begin(v) ELSE v

NotifyResultDelivered(v) == BeginHandsFree([v EXCEPT !.c.st = "idle", !.c.rearms = 0])

ToIdle(v) == [v EXCEPT !.c.active = 0, !.c.failed = 0, !.c.pending = 0, !.c.st = "idle"]

Rearm(v) ==
  IF v.c.st \in {"submitting", "processing", "awaiting_approval", "finalizing"} THEN v
  ELSE IF v.c.rearms >= MaxRearms \/ ~CanBegin(v) THEN [v EXCEPT !.c.hf = FALSE, !.c.st = "error"]
  ELSE Begin([v EXCEPT !.c.rearms = @ + 1])

Becomes(v) == /\ ctl' = v.c /\ rec' = v.rec /\ attempts' = v.n /\ tts' = v.tts /\ utter' = v.utter

Server == <<run, known, cached, listed, retrying, retries>>
Devices == <<ctl, rec, attempts, tts, utter>>
Page == <<page, sub, cancels, silenced>>

(* VoiceController.submit: a new submission, which supersedes the one before. *)
NextTurn == Cardinality({t \in Turns : sub[t].at # "none"}) + 1

Submitted == [t \in Turns |-> IF t = NextTurn THEN [at |-> "sent", page |-> TRUE, ctl |-> TRUE]
                                              ELSE [sub[t] EXCEPT !.ctl = FALSE]]

Submit(v) ==
  IF NextTurn \in Turns
    THEN Becomes([v EXCEPT !.c.st = "submitting"]) /\ sub' = Submitted
    ELSE Becomes(ToIdle(v)) /\ UNCHANGED sub

-----------------------------------------------------------------------------
(* Gestures. *)
CanStartInput == ctl.st \in {"idle", "error", "speaking"}

PressToTalk ==
  /\ ~ctl.hf /\ ctl.active = 0 /\ CanStartInput /\ CanBegin(Voice)
  /\ LET v == IF ctl.st = "speaking" THEN StopOutputAndRecognition(Voice) ELSE Voice
     IN Becomes(Begin([v EXCEPT !.c.rearms = 0]))
  /\ UNCHANGED <<Server, Page>>

(* finalize: the recognizer is stopped, and its end submits. *)
Finalize(v) == Recognizer([v EXCEPT !.c.silence = 0, !.c.pending = v.c.active, !.c.active = 0,
                                    !.c.st = "finalizing"], "stopping")

ReleaseToTalk ==
  /\ ctl.active # 0 /\ ~ctl.hf
  /\ Becomes(Finalize(Voice))
  /\ UNCHANGED <<Server, Page>>

EnableHandsFree ==
  /\ ~ctl.hf /\ CanStartInput /\ CanBegin(Voice)
  /\ LET v == IF ctl.st = "speaking" THEN StopOutputAndRecognition(Voice) ELSE Voice
     IN Becomes(Begin([v EXCEPT !.c.hf = TRUE, !.c.rearms = 0]))
  /\ UNCHANGED <<Server, Page>>

DisableHandsFree ==
  /\ ctl.hf
  /\ LET off == [Voice EXCEPT !.c.hf = FALSE, !.c.rearms = 0]
     IN IF ctl.st = "listening"
          THEN Becomes(ToIdle(Recognizer([off EXCEPT !.c.silence = 0], "aborted")))
          ELSE Becomes([off EXCEPT !.c.silence = IF ctl.st = "finalizing" THEN 0 ELSE ctl.silence])
  /\ UNCHANGED <<Server, Page>>

InputBlocked == ctl.st \in {"finalizing", "submitting", "processing", "awaiting_approval"}

SubmitTyped ==
  /\ ~InputBlocked /\ NextTurn \in Turns
  /\ Submit(StopOutputAndRecognition(Voice))
  /\ UNCHANGED <<Server, page, cancels, silenced>>

(* cancelActiveRun: the local interruption comes first, then the request to cancel the Run. *)
Interrupt(v) == StopOutputAndRecognition([v EXCEPT !.c.hf = FALSE, !.c.silence = 0])

Abandoned_StillSpeakable(p) == [p EXCEPT !.active = 0]
Abandoned(p) == [active |-> 0, speakable |-> p.speakable \ {p.active}]

Escape ==
  /\ Becomes(Interrupt(Voice))
  /\ page' = Abandoned(page)
  /\ sub' = [t \in Turns |-> [sub[t] EXCEPT !.page = FALSE, !.ctl = FALSE]]
  /\ silenced' = silenced \union {t \in Turns : sub[t].at \in {"sent", "stored"} \/ t = page.active}
  /\ cancels' = cancels \union ({page.active} \ {0})
  /\ retrying' = [t \in Turns |-> IF retrying[t] = "owned" THEN "stale" ELSE retrying[t]]
  /\ UNCHANGED <<run, known, cached, listed, retries>>

(* The request reaches the server, or is lost. *)
CancelArrives(t) ==
  /\ t \in cancels
  /\ cancels' = cancels \ {t}
  /\ \/ run[t] \in {"pending", "awaiting_approval"} /\ run' = [run EXCEPT ![t] = "cancelled"]
     \/ UNCHANGED run
  /\ UNCHANGED <<Devices, known, cached, listed, retrying, retries, page, sub, silenced>>

-----------------------------------------------------------------------------
(* Callbacks of the recognizer. *)
SpeechResult(a) ==
  /\ rec[a] \in {"on", "stopping"} /\ ctl.active = a /\ ctl.failed # a
  /\ \E final \in BOOLEAN :
       Becomes([Voice EXCEPT !.c.rearms = 0, !.c.text = ctl.text \/ final,
                             !.c.silence = IF ctl.hf THEN a ELSE ctl.silence])
  /\ UNCHANGED <<Server, Page>>

SilenceTimeout ==
  /\ ctl.silence # 0
  /\ IF ctl.silence = ctl.active /\ ctl.text THEN Becomes(Finalize(Voice))
                                             ELSE Becomes([Voice EXCEPT !.c.silence = 0])
  /\ UNCHANGED <<Server, Page>>

RecognitionEnds(a) ==
  /\ rec[a] # "off"
  /\ LET v == [Voice EXCEPT !.rec[a] = "off"]
     IN \/ /\ ctl.pending = a
           /\ LET u == [v EXCEPT !.c.pending = 0]
              IN IF ctl.text THEN Submit(u) ELSE Becomes(ToIdle(u)) /\ UNCHANGED sub
        \/ /\ ctl.pending # a /\ ctl.active # a
           /\ Becomes(v) /\ UNCHANGED sub
        \/ /\ ctl.pending # a /\ ctl.active = a /\ ctl.failed = a
           /\ LET u == [v EXCEPT !.c.active = 0, !.c.failed = 0]
              IN Becomes(IF ctl.hf THEN Rearm(u) ELSE ToIdle(u))
           /\ UNCHANGED sub
        \/ /\ ctl.pending # a /\ ctl.active = a /\ ctl.failed # a
           /\ LET u == [v EXCEPT !.c.active = 0, !.c.silence = 0]
              IN IF ctl.text THEN Submit(u)
                 ELSE Becomes(IF ctl.hf THEN Rearm(u) ELSE ToIdle(u)) /\ UNCHANGED sub
  /\ UNCHANGED <<Server, page, cancels, silenced>>

(* An error stops the recognizer, whose end is still to come. A benign one waits for it, another gives up. *)
RecognitionError(a) ==
  /\ rec[a] # "off" /\ ctl.active = a
  /\ LET v == [Voice EXCEPT !.rec[a] = "aborted", !.c.silence = 0]
     IN \/ Becomes([v EXCEPT !.c.failed = a, !.c.st = "idle"])
        \/ \E hf \in {ctl.hf, FALSE} : Becomes([ToIdle(v) EXCEPT !.c.hf = hf, !.c.st = "error"])
  /\ UNCHANGED <<Server, Page>>

-----------------------------------------------------------------------------
(* Callbacks of the synthesizer: only those of the current utterance count. *)
UtteranceStarts(t) ==
  /\ utter[t] = "queued" /\ tts.now = t
  /\ Becomes(Recognizer([Voice EXCEPT !.utter[t] = "playing", !.c.silence = 0, !.c.active = 0,
                                      !.c.st = "speaking"], "aborted"))
  /\ UNCHANGED <<Server, Page>>

UtteranceEnds(t) ==
  /\ utter[t] \in {"queued", "playing"} /\ tts.now = t
  /\ LET v == [Voice EXCEPT !.utter[t] = "over", !.tts.now = 0]
     IN IF tts.items = <<>>
          THEN Becomes(NotifyResultDelivered(v))
          ELSE Becomes(Say([v EXCEPT !.tts.items = Tail(tts.items)], tts.items[1]))
  /\ UNCHANGED <<Server, Page>>

BargeIn ==
  /\ ctl.st = "speaking" /\ ctl.hf
  /\ Becomes(BeginHandsFree(StopOutputAndRecognition(Voice)))
  /\ UNCHANGED <<Server, Page>>

-----------------------------------------------------------------------------
(* The server. *)
SubmitStored(t) ==
  /\ sub[t].at = "sent"
  /\ sub' = [sub EXCEPT ![t].at = "stored"] /\ run' = [run EXCEPT ![t] = "pending"]
  /\ UNCHANGED <<Devices, known, cached, listed, retrying, retries, page, cancels, silenced>>

RunProgresses(t) ==
  /\ run[t] \in {"pending", "awaiting_approval"}
  /\ \E state \in AnswerState \ {run[t]} : run' = [run EXCEPT ![t] = state]
  /\ UNCHANGED <<Devices, known, cached, listed, retrying, retries, Page>>

-----------------------------------------------------------------------------
(* The page. A result is the controller with its devices and the page's own references. *)
Now == [v |-> Voice, p |-> page]

(* Mutant: only an answer releases the session. *)
Handled_AnswersOnly(h, t, state, heard) ==
  IF h.p.active # t \/ state \in {"pending", "failed", "cancelled"} THEN h
  ELSE IF state = "awaiting_approval" THEN [h EXCEPT !.v.c.st = "awaiting_approval"]
  ELSE [v |-> IF t \in h.p.speakable /\ state = "answered" /\ heard THEN Speak(h.v, t)
                                                                    ELSE NotifyResultDelivered(h.v),
        p |-> [active |-> 0, speakable |-> h.p.speakable \ {t}]]

(* handleAnswerState: an answer is heard if speech is on and it has a summary. *)
Handled(h, t, state, heard) ==
  IF h.p.active # t \/ state = "pending" THEN h
  ELSE IF state = "awaiting_approval" THEN [h EXCEPT !.v.c.st = "awaiting_approval"]
  ELSE [v |-> IF t \in h.p.speakable /\ state = "answered" /\ heard THEN Speak(h.v, t)
                                                                    ELSE NotifyResultDelivered(h.v),
        p |-> [active |-> 0, speakable |-> h.p.speakable \ {t}]]

(* The effect that recovers the newest turn whose answer is open. *)
Recovered(h, turns, answers) ==
  LET open == {t \in turns : answers[t] \in {"pending", "awaiting_approval"}}
      newest == CHOOSE t \in open : \A u \in open : u <= t
  IN IF open = {} THEN h
     ELSE [p |-> [h.p EXCEPT !.active = newest],
           v |-> [h.v EXCEPT !.c.st = IF answers[newest] = "awaiting_approval" THEN "awaiting_approval"
                                                                               ELSE "processing"]]

Commit(h) == Becomes(h.v) /\ page' = h.p

(* The turns are fetched again: new rows mount, and the recovery effect runs. *)
RefetchTurns ==
  LET turns == {t \in Turns : run[t] # "none"}
  IN /\ turns # listed
     /\ listed' = turns
     /\ Commit(Recovered(Now, turns, known))
     /\ UNCHANGED <<sub, cancels, silenced, run, known, cached, retrying, retries>>

(* A poll loads what is not cached, or fails to. The row whose state changed reports it. *)
Polled(lost) == [t \in Turns |-> IF t \notin listed \ cached THEN known[t]
                                 ELSE IF t \in lost THEN "pending" ELSE run[t]]

Reported(answers, heard) ==
  IF page.active # 0 /\ page.active \in listed /\ answers[page.active] # known[page.active]
    THEN Handled(Now, page.active, answers[page.active], heard)
    ELSE Now

PollAnswers ==
  \E lost \in SUBSET (listed \ cached), heard \in BOOLEAN :
    LET answers == Polled(lost)
    IN /\ listed \ cached # {}
       /\ known' = answers /\ cached' = {t \in listed : answers[t] \in Settled}
       /\ Commit(Recovered(Reported(answers, heard), listed, answers))
       /\ UNCHANGED <<sub, cancels, silenced, run, listed, retrying, retries>>

(* The submission resolves: adoptRun, and then the controller goes on. *)
Continued(h, t) ==
  IF sub[t].ctl /\ h.v.c.st = "submitting" THEN [h EXCEPT !.v.c.st = "processing"] ELSE h

Adopted(t, heard) ==
  Handled([v |-> Voice, p |-> [active |-> t, speakable |-> page.speakable \union {t}]], t, known[t], heard)

SubmitResolves(t) ==
  /\ sub[t].at = "stored"
  /\ sub' = [sub EXCEPT ![t].at = "done"]
  /\ \/ /\ sub[t].page
        /\ \E heard \in BOOLEAN : Commit(Continued(Adopted(t, heard), t))
        /\ UNCHANGED cancels
     \/ /\ ~sub[t].page
        /\ cancels' = cancels \union {t} /\ Commit(Continued(Now, t))
  /\ UNCHANGED <<Server, silenced>>

(* The request fails, before or after the server stored the turn. *)
SubmitRejects(t) ==
  /\ sub[t].at \in {"sent", "stored"}
  /\ sub' = [sub EXCEPT ![t].at = "done"]
  /\ Becomes([Voice EXCEPT !.c.st = IF sub[t].ctl /\ @ = "submitting" THEN "error" ELSE @])
  /\ UNCHANGED <<Server, page, cancels, silenced>>

(* onRetry: the retried turn owns the session. Its answer is not one to speak. *)
Retry(t) ==
  /\ t \in listed /\ known[t] = "failed" /\ retries < MaxRetries
  /\ retrying[t] = "no"
  /\ retries' = retries + 1 /\ retrying' = [retrying EXCEPT ![t] = "owned"]
  /\ Commit([v |-> [Voice EXCEPT !.c.st = "processing"], p |-> [page EXCEPT !.active = t]])
  /\ UNCHANGED <<run, known, cached, listed, sub, cancels, silenced>>

RetryResolves(t) ==
  /\ retrying[t] # "no" /\ run[t] = "failed"
  /\ retrying' = [retrying EXCEPT ![t] = "no"] /\ run' = [run EXCEPT ![t] = "pending"]
  /\ IF retrying[t] = "owned" THEN cached' = cached \ {t} /\ UNCHANGED cancels
                    ELSE cancels' = cancels \union {t} /\ UNCHANGED cached
  /\ UNCHANGED <<Devices, known, listed, retries, page, sub, silenced>>

RetryRejects(t) ==
  /\ retrying[t] # "no"
  /\ retrying' = [retrying EXCEPT ![t] = "no"]
  /\ IF retrying[t] = "owned" THEN Commit([v |-> NotifyResultDelivered(Voice), p |-> [page EXCEPT !.active = 0]])
                    ELSE Commit(Now)
  /\ UNCHANGED <<run, known, cached, listed, retries, sub, cancels, silenced>>

Next ==
  \/ PressToTalk \/ ReleaseToTalk \/ EnableHandsFree \/ DisableHandsFree \/ SubmitTyped \/ Escape
  \/ \E a \in Attempts : SpeechResult(a) \/ RecognitionEnds(a) \/ RecognitionError(a)
  \/ SilenceTimeout \/ BargeIn \/ RefetchTurns \/ PollAnswers
  \/ \E t \in Turns : UtteranceStarts(t) \/ UtteranceEnds(t) \/ SubmitStored(t) \/ RunProgresses(t)
                      \/ SubmitResolves(t) \/ SubmitRejects(t) \/ CancelArrives(t)
                      \/ Retry(t) \/ RetryResolves(t) \/ RetryRejects(t)

Spec == Init /\ [][Next]_vars

-----------------------------------------------------------------------------
(* A turn interrupted with Escape, even while its request is under way, is never spoken (cancelActiveRun *)
(* and adoptRun: "otherwise an interrupted turn keeps running and still speaks its answer").            *)
InterruptedIsSilent == \A t \in silenced : utter[t] \notin {"queued", "playing"}

Outstanding ==
  \/ \E t \in Turns : sub[t].at \in {"sent", "stored"} \/ utter[t] \in {"queued", "playing"}
  \/ \E t \in Turns : run[t] # "none" /\ (t \notin listed \/ run[t] \notin Settled \/ t \notin cached)
  \/ \E t \in Turns : retrying[t] # "no"

Waiting == ctl.st \in {"submitting", "processing", "awaiting_approval"}

(* Once every turn has its final answer on the page and nothing is under way, the controller waits for  *)
(* nothing (handleAnswerState: a Run that ends without an answer "still has to release the session").   *)
(* Only for sessions without a retry: a retried Run that fails again before the next poll leaves the    *)
(* row at "failed", nothing is reported, and the controller stays in "processing".                      *)
SessionReleasedUnretried == retries = 0 /\ ~Outstanding => ~Waiting
=============================================================================
