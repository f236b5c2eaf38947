----------------------------- MODULE ComputerUse -----------------------------
(* A desktop tool call of ComputerToolGateway, from the approved input to the driver: the window is     *)
(* looked up, captured, the approved control is found in that capture, and the driver is told to act.   *)
(* The desktop is a window whose controls come, go and are renamed between any two of these steps.      *)
(* A control is a number; Descriptors are the pairs of role and label, normalised.                      *)
EXTENDS Naturals, Sequences, FiniteSets, SequencesExt

CONSTANTS Descriptors,   \* role and label of a control
          Controls,      \* the controls an application may show
          MaxElements,   \* max_elements of a capture
          MaxCalls,      \* bound on the tool calls made
          MaxChanges     \* bound on the changes of the desktop

VARIABLES window,    \* whether the window is open
          screen,    \* the controls of the window, in the driver's order, with their descriptors
          changes,
          map,       \* the driver's index map: the controls of its latest capture (external)
          call,      \* the tool call in progress and what it has seen
          calls,     \* the calls made so far
          effects,   \* what reached the desktop, with the evidence the call acted on
          files,     \* screenshots on disk, by call
          results    \* what the gateway returned last

vars == <<window, screen, changes, map, call, calls, effects, files, results>>

Control == [id : Controls, is : Descriptors]
NoTarget == "window"
Target == Descriptors \union {NoTarget}

ReadOnly == {"window_list", "capture", "cursor_position"}
Mutating == {"click", "scroll", "type_text", "press_key", "hotkey", "bring_to_front"}
Failures == {"tool_invalid_input", "text_rejected", "hotkey_rejected", "window_gone",
             "target_not_found", "target_ambiguous", "driver_unavailable", "driver_timeout",
             "use_failed", "claim_lost"}
Idle == [tool |-> "capture", target |-> NoTarget, pc |-> "idle", seen |-> <<>>, real |-> <<>>, index |-> 0]

Distinct(s) == \A i, j \in 1..Len(s) : s[i].id = s[j].id => i = j
Screens == {s \in SeqOf(Control, Cardinality(Controls)) : Distinct(s)}

TypeOK ==
  /\ window \in BOOLEAN /\ screen \in Screens /\ changes \in 0..MaxChanges
  /\ map \in Screens
  /\ call \in [tool : ReadOnly \union Mutating, target : Target,
               pc : {"idle", "parse", "find", "capture", "resolve", "act", "persist"},
               seen : Screens, real : Screens, index : 0..MaxElements]
  /\ calls \in 0..MaxCalls
  /\ effects \subseteq [call : 1..MaxCalls, tool : Mutating, target : Target,
                        hit : Controls \union {0}, real : Screens]
  /\ files \subseteq 1..MaxCalls
  /\ results \in Failures \union {"ok"}

Init ==
  /\ window = TRUE /\ screen \in {s \in Screens : s # <<>>} /\ changes = 0
  /\ map = <<>> /\ call = Idle /\ calls = 0 /\ effects = {} /\ files = {} /\ results = "ok"

Return(result) ==
  /\ results' = result
  /\ call' = Idle

(* execute: one call at a time, each with the target its handler asks for. *)
Execute(tool, target) ==
  /\ call.pc = "idle" /\ calls < MaxCalls
  /\ call' = [Idle EXCEPT !.tool = tool, !.target = target, !.pc = "parse"]
  /\ calls' = calls + 1
  /\ UNCHANGED <<window, screen, changes, map, effects, files, results>>

ResolveAddressed(target) == target # NoTarget

WindowList == Execute("window_list", NoTarget)
CursorPosition == Execute("cursor_position", NoTarget)
CaptureWindow == Execute("capture", NoTarget)
Click(target) == ResolveAddressed(target) /\ Execute("click", target)
Scroll(target) == Execute("scroll", target)
TypeText(target) == ResolveAddressed(target) /\ Execute("type_text", target)
PressKey(target) == Execute("press_key", target)
Hotkey(target) == Execute("hotkey", target)
BringToFront == Execute("bring_to_front", NoTarget)

(* Before the driver is touched: the claim is gone, the input is malformed, or a fence refuses it (the  *)
(* screen of typed text, the denied combinations).                                                      *)
Refuse(tools, failure) ==
  /\ call.pc = "parse" /\ call.tool \in tools
  /\ Return(failure)
  /\ UNCHANGED <<window, screen, changes, map, calls, effects, files>>

ClaimLost == Refuse(ReadOnly \union Mutating, "claim_lost")
InputInvalid == Refuse(ReadOnly \union Mutating, "tool_invalid_input")
TextRejected == Refuse({"type_text"}, "text_rejected")
HotkeyRejected == Refuse({"hotkey"}, "hotkey_rejected")

Parse ==
  /\ call.pc = "parse"
  /\ call' = [call EXCEPT !.pc = IF call.tool \in {"window_list", "cursor_position"}
                                   THEN "act" ELSE "find"]
  /\ UNCHANGED <<window, screen, changes, map, calls, effects, files, results>>

(* Every driver call is a request that can fail or time out. The reply to a read is parsed strictly,    *)
(* the reply to an action is not.                                                                       *)
DriverFails ==
  /\ call.pc \in {"find", "capture", "act"}
  /\ \E failure \in {"driver_unavailable", "driver_timeout", "use_failed"} : Return(failure)
  /\ UNCHANGED <<window, screen, changes, map, calls, effects, files>>

ReplyMalformed ==
  /\ call.pc \in {"find", "capture"} \/ (call.pc = "act" /\ call.tool \in ReadOnly)
  /\ Return("use_failed")
  /\ UNCHANGED <<window, screen, changes, map, calls, effects, files>>

(* list_windows filtered by the pid. *)
FindWindow ==
  /\ call.pc = "find"
  /\ IF window THEN call' = [call EXCEPT !.pc = "capture"] /\ UNCHANGED results
               ELSE Return("window_gone")
  /\ UNCHANGED <<window, screen, changes, map, calls, effects, files>>

(* get_window_state: the driver walks the window and replaces its index map. *)
Shown(limit) == SubSeq(screen, 1, IF Len(screen) < limit THEN Len(screen) ELSE limit)

(* computer.capture asks for one element more than it reports. *)
ProbeBudget == MaxElements + 1

CaptureReported ==
  /\ call.pc = "capture" /\ call.tool = "capture" /\ window
  /\ map' = Shown(ProbeBudget)
  /\ call' = [call EXCEPT !.pc = "persist", !.seen = Shown(MaxElements), !.real = screen]
  /\ UNCHANGED <<window, screen, changes, calls, effects, files, results>>

(* The image is oversized, undecodable, unexpected or not the one asked for. *)
ImageRejected ==
  /\ call.pc = "capture" /\ window
  /\ map' = Shown(IF call.tool = "capture" THEN ProbeBudget ELSE MaxElements)
  /\ Return("use_failed")
  /\ UNCHANGED <<window, screen, changes, calls, effects, files>>

(* TargetResolver._capture *)
CaptureForTarget ==
  /\ call.pc = "capture" /\ call.tool # "capture" /\ window
  /\ map' = Shown(MaxElements)
  /\ call' = [call EXCEPT !.pc = "resolve", !.seen = map', !.real = screen]
  /\ UNCHANGED <<window, screen, changes, calls, effects, files, results>>

Matching(s, descriptor) == {i \in 1..Len(s) : s[i].is = descriptor}

ElementTarget_First(matches, i) == i \in matches /\ \A j \in matches : i <= j

ElementTarget(matches, i) == matches = {i}

Resolve ==
  /\ call.pc = "resolve"
  /\ LET matches == Matching(call.seen, call.target) IN
     \/ /\ call.target = NoTarget
        /\ call' = [call EXCEPT !.pc = "act"] /\ UNCHANGED results
     \/ /\ call.target # NoTarget
        /\ \E i \in 1..Len(call.seen) : /\ ElementTarget(matches, i)
                                        /\ call' = [call EXCEPT !.pc = "act", !.index = i]
        /\ UNCHANGED results
     \/ /\ call.target # NoTarget /\ matches = {}
        /\ Return("target_not_found")
     \/ /\ call.target # NoTarget /\ \A i \in matches : ~ElementTarget(matches, i)
        /\ matches # {}
        /\ Return("target_ambiguous")
  /\ UNCHANGED <<window, screen, changes, map, calls, effects, files>>

(* _act: the driver acts on the control its index map holds at that index, if the application still     *)
(* shows it, and recognises a stale token otherwise. The reply may be lost after the action landed.     *)
Standing(i) == \E j \in 1..Len(screen) : screen[j].id = map[i].id

Act ==
  /\ call.pc = "act" /\ call.tool \in Mutating /\ window
  /\ IF call.index = 0 THEN TRUE ELSE Standing(call.index)
  /\ effects' = effects \union
       {[call |-> calls, tool |-> call.tool, target |-> call.target, real |-> call.real,
         hit |-> IF call.index = 0 THEN 0 ELSE map[call.index].id]}
  /\ \E result \in {"ok", "driver_timeout", "use_failed"} : Return(result)
  /\ UNCHANGED <<window, screen, changes, map, calls, files>>

Observe ==
  /\ call.pc = "act" /\ call.tool \in ReadOnly
  /\ Return("ok")
  /\ UNCHANGED <<window, screen, changes, map, calls, effects, files>>

(* ScreenshotStore.persist: the image is written aside and renamed, under the name of its invocation.   *)
Persist ==
  /\ call.pc = "persist"
  /\ \E image \in BOOLEAN : files' = IF image THEN files \union {calls} ELSE files
  /\ Return("ok")
  /\ UNCHANGED <<window, screen, changes, map, calls, effects>>

PersistFails ==
  /\ call.pc = "persist"
  /\ Return("use_failed")
  /\ UNCHANGED <<window, screen, changes, map, calls, effects, files>>

(* The desktop: the window closes, a control appears, goes or is relabelled. *)
Changed ==
  \/ window' = FALSE /\ screen' = <<>>
  \/ /\ window /\ UNCHANGED window
     /\ \/ \E i \in 1..Len(screen), d \in Descriptors : screen' = [screen EXCEPT ![i].is = d]
        \/ \E i \in 1..Len(screen) : screen' = RemoveAt(screen, i)
        \/ \E c \in Control : /\ \A i \in 1..Len(screen) : screen[i].id # c.id
                              /\ \E i \in 1..Len(screen) + 1 : screen' = InsertAt(screen, i, c)

DesktopChanges ==
  /\ changes < MaxChanges
  /\ Changed /\ screen' # screen
  /\ changes' = changes + 1
  /\ UNCHANGED <<map, call, calls, effects, files, results>>

Next ==
  \/ WindowList \/ CursorPosition \/ CaptureWindow \/ BringToFront
  \/ \E target \in Target : \/ Click(target) \/ Scroll(target) \/ TypeText(target)
                            \/ PressKey(target) \/ Hotkey(target)
  \/ ClaimLost \/ InputInvalid \/ TextRejected \/ HotkeyRejected
  \/ Parse \/ DriverFails \/ ReplyMalformed \/ FindWindow
  \/ CaptureReported \/ ImageRejected \/ CaptureForTarget \/ Resolve
  \/ Act \/ Observe \/ Persist \/ PersistFails
  \/ DesktopChanges

Spec == Init /\ [][Next]_vars

-----------------------------------------------------------------------------
(* An action that names a control lands on a control which, when the same call captured the window, was *)
(* the only one with the approved role and label — however the window changed before and after that     *)
(* capture, and whichever call last rebuilt the driver's index map (TargetResolver._resolve: "looks     *)
(* again immediately before acting and refuses unless the intention still resolves, uniquely").         *)
(* Restricted to windows a capture shows completely: _capture asks for max_elements and no more, so a   *)
(* second match beyond the limit is not seen.                                                           *)
ActsOnApproved ==
  \A e \in effects : e.target # NoTarget /\ Len(e.real) <= MaxElements =>
    {e.real[i].id : i \in Matching(e.real, e.target)} = {e.hit}
=============================================================================
