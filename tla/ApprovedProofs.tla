---------------------------- MODULE ApprovedProofs ----------------------------
(***************************************************************************)
(* Proofs about two things a person approves, for any values of the        *)
(* bounds: an action on the desktop reaches the control that was approved  *)
(* (ComputerUse), and the pointer to the active revision of a Skill moves  *)
(* as approved (SkillPromotion).                                           *)
(***************************************************************************)
EXTENDS ComputerUse, FiniteSetTheorems, SequenceTheorems, TLAPS

CONSTANTS MaxVersion, Proposals, Rollbacks, Sessions, Commands

VARIABLES skill, revs, props, promo, rb, sess

Skills == INSTANCE SkillPromotion

(* Most leaves are first-order: Zenon takes those that name no prover.                                  *)
USE Zenon

Pcs == {"idle", "parse", "find", "capture", "resolve", "act", "persist"}

CallRow ==
  [tool : ReadOnly \cup Mutating, target : Target, pc : Pcs, seen : Seq(Control), real : Seq(Control),
   index : Nat]

(* What a capture of the window s shows. *)
Seen(s) == SubSeq(s, 1, IF Len(s) < MaxElements THEN Len(s) ELSE MaxElements)

(* Between its capture and its action a call that names a control has what the driver's map holds, and  *)
(* once it acts it has the only control that matches.                                                   *)
CallInv ==
  /\ screen \in Seq(Control) /\ call \in CallRow
  /\ call.pc = "resolve" => call.seen = Seen(call.real) /\ map = call.seen
  /\ call.pc \notin {"act"} => call.index = 0
  /\ call.pc = "act" /\ call.tool \in Mutating /\ call.target # NoTarget =>
       /\ call.seen = Seen(call.real) /\ map = call.seen
       /\ call.index \in 1 .. Len(call.seen) /\ Matching(call.seen, call.target) = {call.index}

DesktopInv == CallInv /\ ActsOnApproved

-----------------------------------------------------------------------------
(* A window that a capture shows completely is what the capture holds.                                  *)
LEMMA SeenWhole ==
  ASSUME MaxElements \in Nat, NEW s \in Seq(Control), Len(s) <= MaxElements
  PROVE  Seen(s) = s
<1>1. Len(s) \in Nat
  BY LenProperties
<1>2. (IF Len(s) < MaxElements THEN Len(s) ELSE MaxElements) = Len(s)
  BY <1>1, SMT
<1> QED
  BY <1>2, SubSeqFull DEF Seen

(* A part of a window is a sequence of its controls.                                                    *)
LEMMA Part ==
  ASSUME NEW s \in Seq(Control), NEW m \in Nat \ {0}, NEW n \in Nat, n <= Len(s)
  PROVE  SubSeq(s, m, n) \in Seq(Control)
<1>1. Len(s) \in Nat /\ s \in [1 .. Len(s) -> Control]
  BY LenProperties
<1>2. \A i \in m .. n : s[i] \in Control
  <2>1. \A i \in m .. n : i \in 1 .. Len(s)
    BY <1>1, SMT
  <2> QED
    BY <1>1, <2>1
<1>3. m \in Int /\ n \in Int
  BY SMT
<1> QED
  BY <1>2, <1>3, SubSeqProperties

(* What the driver shows of the window is a sequence of its controls.                                   *)
LEMMA ShownIsPart ==
  ASSUME screen \in Seq(Control), NEW n \in Nat
  PROVE  Shown(n) \in Seq(Control)
<1>1. Len(screen) \in Nat
  BY LenProperties
<1> DEFINE k == IF Len(screen) < n THEN Len(screen) ELSE n
<1>2. k \in Nat /\ k <= Len(screen) /\ 1 \in Nat \ {0}
  BY <1>1, SMT
<1> HIDE DEF k
<1>3. SubSeq(screen, 1, k) \in Seq(Control)
  BY <1>2, Part
<1> QED
  BY <1>3 DEF Shown, k

(* The window stays a sequence of controls whatever the application does.                               *)
LEMMA WindowChanges ==
  ASSUME screen \in Seq(Control), Changed
  PROVE  screen' \in Seq(Control)
<1>0. Len(screen) \in Nat
  BY LenProperties
<1>1. CASE screen' = <<>>
  BY <1>1, EmptySeq
<1>2. ASSUME NEW i \in 1 .. Len(screen), NEW d \in Descriptors, screen' = [screen EXCEPT ![i].is = d]
      PROVE  screen' \in Seq(Control)
  <2>1. screen[i] \in Control
    BY ElementOfSeq
  <2>2. [screen[i] EXCEPT !.is = d] \in Control
    BY <2>1 DEF Control
  <2>3. screen' = [screen EXCEPT ![i] = [screen[i] EXCEPT !.is = d]]
    BY <1>2
  <2> QED
    BY <2>2, <2>3, ExceptSeq
<1>3. ASSUME NEW i \in 1 .. Len(screen), screen' = RemoveAt(screen, i) PROVE screen' \in Seq(Control)
  <2>1. /\ i - 1 \in Nat /\ i - 1 <= Len(screen) /\ i + 1 \in Nat \ {0} /\ Len(screen) <= Len(screen)
        /\ 1 \in Nat \ {0}
    BY <1>0, SMT
  <2>2. SubSeq(screen, 1, i - 1) \in Seq(Control) /\ SubSeq(screen, i + 1, Len(screen)) \in Seq(Control)
    BY <1>0, <2>1, Part
  <2> QED
    BY <1>3, <2>2, ConcatProperties DEF RemoveAt
<1>4. ASSUME NEW c \in Control, NEW i \in 1 .. Len(screen) + 1, screen' = InsertAt(screen, i, c)
      PROVE  screen' \in Seq(Control)
  <2>1. /\ i - 1 \in Nat /\ i - 1 <= Len(screen) /\ i \in Nat \ {0} /\ Len(screen) <= Len(screen)
        /\ 1 \in Nat \ {0}
    BY <1>0, SMT
  <2>2. SubSeq(screen, 1, i - 1) \in Seq(Control) /\ SubSeq(screen, i, Len(screen)) \in Seq(Control)
    BY <1>0, <2>1, Part
  <2>3. <<c>> \in Seq(Control)
    BY SMT
  <2>4. SubSeq(screen, 1, i - 1) \o <<c>> \in Seq(Control)
    BY <2>2, <2>3, ConcatProperties
  <2> QED
    BY <1>4, <2>2, <2>4, ConcatProperties DEF InsertAt
<1> QED
  BY <1>1, <1>2, <1>3, <1>4 DEF Changed

-----------------------------------------------------------------------------
(* A call that has returned promises nothing.                                                           *)
LEMMA ReturnKeeps ==
  ASSUME CallInv, call' = Idle, screen' \in Seq(Control) PROVE CallInv'
<1>1. <<>> \in Seq(Control) /\ 0 \in Nat
  BY EmptySeq, SMT
<1>2. Idle \in CallRow
  BY <1>1 DEF Idle, CallRow, Pcs, ReadOnly, Target
<1> QED
  BY <1>2 DEF CallInv, Idle

(* A call that has not captured yet only has its input.                                                 *)
LEMMA EarlyKeeps ==
  ASSUME CallInv, NEW x \in CallRow, call' = x, UNCHANGED screen, x.index = 0,
         x.pc \in {"idle", "parse", "find", "capture", "persist"} \/ (x.pc = "act" /\ x.tool \in ReadOnly)
  PROVE  CallInv'
<1>1. x.tool \in ReadOnly => x.tool \notin Mutating
  BY DEF ReadOnly, Mutating
<1> QED
  BY <1>1 DEF CallInv

(* The calls of execute.                                                                                *)
LEMMA ExecuteKeeps ==
  ASSUME CallInv, NEW tool \in ReadOnly \cup Mutating, NEW target \in Target, Execute(tool, target)
  PROVE  CallInv'
<1> DEFINE x == [Idle EXCEPT !.tool = tool, !.target = target, !.pc = "parse"]
<1>1. <<>> \in Seq(Control) /\ 0 \in Nat
  BY EmptySeq, SMT
<1>2. x \in CallRow /\ x.index = 0 /\ x.pc = "parse"
  BY <1>1 DEF Idle, CallRow, Pcs
<1>3. call' = x /\ UNCHANGED screen
  BY DEF Execute
<1> HIDE DEF x
<1> QED
  BY <1>2, <1>3, EarlyKeeps

(* The steps between the input and the capture.                                                         *)
LEMMA StartKeeps ==
  ASSUME CallInv, Parse \/ FindWindow PROVE CallInv'
<1>0. call \in CallRow
  BY DEF CallInv
<1>1. CASE Parse
  <2> DEFINE p == IF call.tool \in {"window_list", "cursor_position"} THEN "act" ELSE "find"
             x == [call EXCEPT !.pc = p]
  <2>1. call.index = 0
    BY <1>1 DEF Parse, CallInv
  <2>2. p = "find" \/ (p = "act" /\ call.tool \in ReadOnly)
    BY DEF ReadOnly
  <2>3. p \in Pcs
    BY <2>2 DEF Pcs
  <2> HIDE DEF p
  <2>4. x \in CallRow /\ x.pc = p /\ x.index = 0 /\ x.tool = call.tool
    BY <1>0, <2>1, <2>3 DEF CallRow
  <2>5. call' = x /\ UNCHANGED screen
    BY <1>1 DEF Parse, p
  <2> HIDE DEF x
  <2> QED
    BY <2>2, <2>4, <2>5, EarlyKeeps
<1>2. CASE FindWindow /\ window
  <2> DEFINE x == [call EXCEPT !.pc = "capture"]
  <2>1. call.index = 0
    BY <1>2 DEF FindWindow, CallInv
  <2>2. x \in CallRow /\ x.pc = "capture" /\ x.index = 0
    BY <1>0, <2>1 DEF CallRow, Pcs
  <2>3. call' = x /\ UNCHANGED screen
    BY <1>2 DEF FindWindow
  <2> HIDE DEF x
  <2> QED
    BY <2>2, <2>3, EarlyKeeps
<1>3. CASE FindWindow /\ ~window
  BY <1>3, ReturnKeeps DEF FindWindow, Return, CallInv
<1> QED
  BY <1>1, <1>2, <1>3

(* The captures.                                                                                        *)
LEMMA CaptureKeeps ==
  ASSUME MaxElements \in Nat, CallInv, CaptureReported \/ CaptureForTarget PROVE CallInv'
<1>0. call \in CallRow /\ screen \in Seq(Control) /\ Shown(MaxElements) \in Seq(Control)
  BY ShownIsPart DEF CallInv
<1>1. CASE CaptureReported
  <2> DEFINE x == [call EXCEPT !.pc = "persist", !.seen = Shown(MaxElements), !.real = screen]
  <2>1. call.index = 0
    BY <1>1 DEF CaptureReported, CallInv
  <2>2. x \in CallRow /\ x.pc = "persist" /\ x.index = 0
    BY <1>0, <2>1 DEF CallRow, Pcs
  <2>3. call' = x /\ UNCHANGED screen
    BY <1>1 DEF CaptureReported
  <2> HIDE DEF x
  <2> QED
    BY <2>2, <2>3, EarlyKeeps
<1>2. CASE CaptureForTarget
  <2> DEFINE x == [call EXCEPT !.pc = "resolve", !.seen = Shown(MaxElements), !.real = screen]
  <2>1. call.index = 0
    BY <1>2 DEF CaptureForTarget, CallInv
  <2>2. x \in CallRow /\ x.pc = "resolve" /\ x.index = 0 /\ x.seen = Shown(MaxElements) /\ x.real = screen
    BY <1>0, <2>1 DEF CallRow, Pcs
  <2>3. call' = x /\ UNCHANGED screen /\ map' = Shown(MaxElements)
    BY <1>2 DEF CaptureForTarget
  <2>4. Seen(screen) = Shown(MaxElements)
    BY DEF Seen, Shown
  <2> HIDE DEF x
  <2> QED
    BY <1>0, <2>2, <2>3, <2>4 DEF CallInv
<1> QED
  BY <1>1, <1>2

(* TargetResolver takes the only control that matches, or none.                                         *)
LEMMA ResolveKeeps ==
  ASSUME CallInv, Resolve PROVE CallInv'
<1>0. /\ call \in CallRow /\ screen \in Seq(Control) /\ call.pc = "resolve" /\ call.seen = Seen(call.real)
      /\ map = call.seen /\ call.index = 0 /\ UNCHANGED <<screen, map>> /\ call.seen \in Seq(Control)
  BY DEF CallInv, Resolve, CallRow
<1>1. CASE call.target = NoTarget /\ call' = [call EXCEPT !.pc = "act"]
  <2> DEFINE x == [call EXCEPT !.pc = "act"]
  <2>1. x \in CallRow /\ x.pc = "act" /\ x.target = NoTarget
    BY <1>0, <1>1 DEF CallRow, Pcs
  <2>2. call' = x
    BY <1>1
  <2> HIDE DEF x
  <2> QED
    BY <1>0, <2>1, <2>2 DEF CallInv
<1>2. ASSUME NEW i \in 1 .. Len(call.seen), Matching(call.seen, call.target) = {i},
             call' = [call EXCEPT !.pc = "act", !.index = i]
      PROVE  CallInv'
  <2> DEFINE x == [call EXCEPT !.pc = "act", !.index = i]
  <2>0. i \in Nat
    <3>1. Len(call.seen) \in Nat
      BY <1>0, LenProperties
    <3> QED
      BY <3>1, SMT
  <2>1. /\ x \in CallRow /\ x.pc = "act" /\ x.target = call.target /\ x.seen = call.seen
        /\ x.real = call.real /\ x.index = i
    BY <1>0, <2>0 DEF CallRow, Pcs
  <2>2. call' = x
    BY <1>2
  <2> HIDE DEF x
  <2> QED
    BY <1>0, <1>2, <2>1, <2>2 DEF CallInv
<1>3. CASE call' = Idle
  BY <1>0, <1>3, ReturnKeeps
<1> QED
  BY <1>1, <1>2, <1>3 DEF Resolve, ElementTarget, Return

(* The action reaches what its call resolved.                                                           *)
LEMMA ActLands ==
  ASSUME MaxElements \in Nat, CallInv, ActsOnApproved, Act PROVE ActsOnApproved'
<1> DEFINE h == IF call.index = 0 THEN 0 ELSE map[call.index].id
           e == [call |-> calls, tool |-> call.tool, target |-> call.target, real |-> call.real, hit |-> h]
<1>1. effects' = effects \cup {e}
  BY DEF Act
<1>2. e.target = call.target /\ e.real = call.real /\ e.hit = h
  OBVIOUS
<1>3. ASSUME call.target # NoTarget, Len(call.real) <= MaxElements
      PROVE  {call.real[i].id : i \in Matching(call.real, call.target)} = {h}
  <2>1. /\ call.seen = Seen(call.real) /\ map = call.seen /\ call.index \in 1 .. Len(call.seen)
        /\ Matching(call.seen, call.target) = {call.index}
    BY <1>3 DEF CallInv, Act
  <2>2. call.real \in Seq(Control) /\ call.seen \in Seq(Control)
    BY DEF CallInv, CallRow
  <2>3. Seen(call.real) = call.real
    BY <1>3, <2>2, SeenWhole
  <2>4. call.index # 0
    <3>1. Len(call.seen) \in Nat
      BY <2>2, LenProperties
    <3> QED
      BY <2>1, <3>1, SMT
  <2>5. h = call.real[call.index].id /\ Matching(call.real, call.target) = {call.index}
    BY <2>1, <2>3, <2>4
  <2> HIDE DEF h
  <2> QED
    BY <2>5
<1> HIDE DEF e, h
<1>4. SUFFICES ASSUME NEW f \in effects', f.target # NoTarget, Len(f.real) <= MaxElements
               PROVE  {f.real[i].id : i \in Matching(f.real, f.target)} = {f.hit}
  BY DEF ActsOnApproved
<1>5. CASE f \in effects
  BY <1>4, <1>5 DEF ActsOnApproved
<1>6. CASE f = e
  BY <1>2, <1>3, <1>4, <1>6
<1> QED
  BY <1>1, <1>5, <1>6

(* Every step keeps what is known of the call, and only an action reaches the desktop.                  *)
LEMMA DesktopNext ==
  ASSUME MaxElements \in Nat, DesktopInv, [Next]_vars PROVE DesktopInv'
<1>0. CallInv /\ ActsOnApproved /\ screen \in Seq(Control)
  BY DEF DesktopInv, CallInv
<1>1. ASSUME NEW tool \in ReadOnly \cup Mutating, NEW target \in Target, Execute(tool, target)
      PROVE  DesktopInv'
  <2>1. UNCHANGED effects
    BY <1>1 DEF Execute
  <2> QED
    BY <1>0, <1>1, <2>1, ExecuteKeeps DEF DesktopInv, ActsOnApproved
<1>2. ASSUME UNCHANGED <<screen, effects>>, call' = Idle PROVE DesktopInv'
  BY <1>0, <1>2, ReturnKeeps DEF DesktopInv, ActsOnApproved
<1>3. CASE \/ WindowList \/ CursorPosition \/ CaptureWindow \/ BringToFront
           \/ \E target \in Target : \/ Click(target) \/ Scroll(target) \/ TypeText(target)
                                     \/ PressKey(target) \/ Hotkey(target)
  <2>1. /\ {"window_list", "cursor_position", "capture", "click", "scroll", "type_text", "press_key",
             "hotkey",
            "bring_to_front"} \subseteq ReadOnly \cup Mutating
        /\ NoTarget \in Target
    BY DEF ReadOnly, Mutating, Target
  <2>2. \E tool \in ReadOnly \cup Mutating, target \in Target : Execute(tool, target)
    BY <1>3, <2>1 DEF WindowList, CursorPosition, CaptureWindow, BringToFront, Click, Scroll, TypeText,
                      PressKey, Hotkey
  <2> QED
    BY <1>1, <2>2
<1>4. CASE ClaimLost \/ InputInvalid \/ TextRejected \/ HotkeyRejected
  BY <1>2, <1>4 DEF ClaimLost, InputInvalid, TextRejected, HotkeyRejected, Refuse, Return
<1>5. CASE Parse \/ FindWindow
  <2>1. UNCHANGED effects
    BY <1>5 DEF Parse, FindWindow
  <2> QED
    BY <1>0, <1>5, <2>1, StartKeeps DEF DesktopInv, ActsOnApproved
<1>6. CASE DriverFails \/ ReplyMalformed \/ ImageRejected \/ Observe \/ Persist \/ PersistFails
  BY <1>2, <1>6 DEF DriverFails, ReplyMalformed, ImageRejected, Observe, Persist, PersistFails, Return
<1>7. CASE CaptureReported \/ CaptureForTarget
  <2>1. UNCHANGED effects
    BY <1>7 DEF CaptureReported, CaptureForTarget
  <2> QED
    BY <1>0, <1>7, <2>1, CaptureKeeps DEF DesktopInv, ActsOnApproved
<1>8. CASE Resolve
  <2>1. UNCHANGED effects
    BY <1>8 DEF Resolve
  <2> QED
    BY <1>0, <1>8, <2>1, ResolveKeeps DEF DesktopInv, ActsOnApproved
<1>9. CASE Act
  <2>1. ActsOnApproved'
    BY <1>0, <1>9, ActLands
  <2>2. call' = Idle /\ UNCHANGED screen
    BY <1>9 DEF Act, Return
  <2> QED
    BY <1>0, <2>1, <2>2, ReturnKeeps DEF DesktopInv
<1>10. CASE DesktopChanges
  <2>1. screen' \in Seq(Control)
    BY <1>0, <1>10, WindowChanges DEF DesktopChanges
  <2>2. UNCHANGED <<map, call, effects>>
    BY <1>10 DEF DesktopChanges
  <2> QED
    BY <1>0, <2>1, <2>2 DEF DesktopInv, CallInv, ActsOnApproved
<1>11. CASE UNCHANGED vars
  BY <1>0, <1>11 DEF vars, DesktopInv, CallInv, ActsOnApproved
<1> QED
  BY <1>3, <1>4, <1>5, <1>6, <1>7, <1>8, <1>9, <1>10, <1>11 DEF Next

(* A window and no call: the invariant holds initially.                                                 *)
LEMMA DesktopInit ==
  ASSUME Init PROVE DesktopInv
<1>1. <<>> \in Seq(Control) /\ 0 \in Nat
  BY EmptySeq, SMT
<1>2. Idle \in CallRow
  BY <1>1 DEF Idle, CallRow, Pcs, ReadOnly, Target
<1>3. screen \in Seq(Control)
  <2>1. PICK m \in 0 .. Cardinality(Controls) : screen \in [1 .. m -> Control]
    BY DEF Init, Screens, SeqOf
  <2>2. m \in Nat
    BY <2>1, SMT
  <2> QED
    BY <2>1, <2>2, SMT
<1>4. ActsOnApproved
  BY DEF Init, ActsOnApproved
<1> QED
  BY <1>2, <1>3, <1>4 DEF Init, DesktopInv, CallInv, Idle

(* For any desktop, any controls and any number of calls: an action that reaches the desktop reaches    *)
(* the control that was approved, the only one of its description in a window that the capture shows    *)
(* completely, however the window changes between any two steps (TargetResolver,                        *)
(* ComputerToolGateway._act).                                                                           *)
THEOREM ActionsLandAsApproved == ASSUME MaxElements \in Nat PROVE Spec => []ActsOnApproved
<1>1. Init => DesktopInv
  BY DesktopInit
<1>2. DesktopInv /\ [Next]_vars => DesktopInv'
  BY DesktopNext
<1>3. DesktopInv => ActsOnApproved
  BY DEF DesktopInv
<1> QED
  BY <1>1, <1>2, <1>3, PTL DEF Spec

-----------------------------------------------------------------------------
(* The pointer to the active revision of a Skill. *)

\* The two revisions that are there initially can be numbered, and a proposal is
\* neither of the other two origins of a revision.
PromotionBounds == MaxVersion \in Nat /\ MaxVersion >= 2 /\ {"none", "operator"} \cap Proposals = {}

\* Every version before n is there.
Below(n, R) == \A w \in 1 .. (n - 1) : w \in Skills!Versions => R[w] # "none"

\* The versions that are there have no gap.
VersionsInv == \A v \in Skills!Versions : revs[v] # "none" => Below(v, revs)

\* A request expects the base of its proposal, which does not change from review
\* on, and its target follows on versions that were there.
RequestsInv ==
  \A p \in Proposals :
    /\ props[p].status # "none" => props[p].base \in Skills!Versions /\ revs[props[p].base] # "none"
    /\ promo[p].status # "none" =>
         /\ props[p].status # "none" /\ promo[p].expected = props[p].base
         /\ promo[p].target \in Skills!Versions /\ Below(promo[p].target, revs)

\* What a session has read still holds, of revisions R, proposals P, promotions Q
\* and rollbacks B.
Loaded(x, R, P, Q, B) ==
  /\ x.op = "revise" => x.id \in Skills!Versions /\ Below(x.id, R)
  /\ x.op = "activate" => x.id \in Skills!Versions
  /\ x.op = "cancelProposal" => x.id \in Proposals /\ P[x.id].status # "none"
  /\ x.op = "request" =>
       /\ x.id \in Proposals /\ P[x.id].status # "none" /\ x.row.active = P[x.id].base
       /\ x.next \in Skills!Versions /\ Below(x.next, R)
  /\ x.op \in {"promote", "stale", "reject", "cancel"} => x.id \in Proposals /\ Q[x.id].status # "none"
  /\ x.op = "requestBack" => x.id \in Skills!Versions /\ x.id # x.row.active
  /\ x.op \in {"rollback", "staleBack", "rejectBack", "cancelBack"} =>
       x.id \in Rollbacks /\ B[x.id].status # "none"

SessionsInv == \A s \in Sessions : Loaded(sess[s], revs, props, promo, rb)

PromotionInv == Skills!TypeOK /\ VersionsInv /\ RequestsInv /\ SessionsInv

-----------------------------------------------------------------------------
(* Versions *)

\* next_version follows on versions that are there.
LEMMA NextIsBelow ==
  ASSUME PromotionBounds, Skills!TypeOK, VersionsInv, Skills!NextVersion <= MaxVersion
  PROVE  Skills!NextVersion \in Skills!Versions /\ Below(Skills!NextVersion, revs)
<1> DEFINE S == {v \in Skills!Versions : revs[v] # "none"}
           k == Cardinality(S)
<1>1. IsFiniteSet(Skills!Versions) /\ S \in SUBSET Skills!Versions
  BY FS_Interval, SMT DEF Skills!Versions, PromotionBounds
<1>2. IsFiniteSet(S) /\ k \in Nat
  BY <1>1, FS_Subset, FS_CardinalityType
<1>3. Skills!NextVersion = k + 1
  BY DEF Skills!NextVersion, Skills!Cardinality, Cardinality
<1> HIDE DEF k
<1>4. Skills!NextVersion \in Skills!Versions
  BY <1>2, <1>3, SMT DEF Skills!Versions, PromotionBounds
<1>5. ASSUME NEW w \in 1 .. k, w \in Skills!Versions, revs[w] = "none" PROVE FALSE
  <2>1. S \in SUBSET (1 .. (w - 1))
    <3> SUFFICES ASSUME NEW v \in S, ~(v <= w - 1) PROVE FALSE
      BY <1>2, SMT DEF Skills!Versions
    <3>1. w \in 1 .. (v - 1) \/ w = v
      BY <1>2, SMT DEF Skills!Versions
    <3> QED
      BY <1>5, <3>1 DEF VersionsInv, Below
  <2>2. /\ IsFiniteSet(1 .. (w - 1))
        /\ Cardinality(1 .. (w - 1)) = IF 1 > w - 1 THEN 0 ELSE (w - 1) - 1 + 1
    <3>1. w - 1 \in Int /\ 1 \in Int
      BY <1>2, SMT
    <3> QED
      BY <3>1, FS_Interval
  <2>3. k <= Cardinality(1 .. (w - 1))
    BY <2>1, <2>2, FS_Subset DEF k
  <2> QED
    BY <1>2, <2>2, <2>3, SMT
<1>6. Below(Skills!NextVersion, revs)
  <2>1. 1 .. (Skills!NextVersion - 1) = 1 .. k
    BY <1>2, <1>3, SMT
  <2> QED
    BY <1>5, <2>1 DEF Below
<1> QED
  BY <1>4, <1>6

\* A version that is not there is later than one that is.
LEMMA NewIsLater ==
  ASSUME PromotionBounds, VersionsInv, NEW v \in Skills!Versions, NEW u \in Skills!Versions,
         revs[v] = "none", revs[u] # "none"
  PROVE  u < v
<1>1. v \notin 1 .. (u - 1)
  BY DEF VersionsInv, Below
<1>2. v # u
  OBVIOUS
<1> QED
  BY <1>1, <1>2, SMT DEF Skills!Versions, PromotionBounds

-----------------------------------------------------------------------------
(* What only grows *)

Grows ==
  /\ \A v \in Skills!Versions : revs[v] # "none" => revs'[v] # "none"
  /\ \A p \in Proposals : props[p].status # "none" => props'[p].status # "none"
       /\ props'[p].base = props[p].base
  /\ \A p \in Proposals : promo[p].status # "none" => promo'[p].status # "none"
  /\ \A r \in Rollbacks : rb[r].status # "none" => rb'[r].status # "none"

SessionRow ==
  [op : Skills!AllOps \cup {"none"}, id : Skills!Versions \cup Proposals \cup Rollbacks \cup {Skills!None},
   row : Skills!SkillRow, next : 0 .. MaxVersion, was : Skills!ApprovalState]

\* What was read still holds of rows that only grew.
LEMMA LoadedStays ==
  ASSUME NEW R, NEW P, NEW Q, NEW B, NEW R2, NEW P2, NEW Q2, NEW B2, NEW x, Loaded(x, R, P, Q, B),
         \A v \in Skills!Versions : R[v] # "none" => R2[v] # "none",
         \A p \in Proposals : P[p].status # "none" => P2[p].status # "none" /\ P2[p].base = P[p].base,
         \A p \in Proposals : Q[p].status # "none" => Q2[p].status # "none",
         \A r \in Rollbacks : B[r].status # "none" => B2[r].status # "none"
  PROVE  Loaded(x, R2, P2, Q2, B2)
<1>1. \A n : Below(n, R) => Below(n, R2)
  BY DEF Below
<1> QED
  BY <1>1 DEF Loaded

\* The transaction of a session ends, and the rows it wrote only grew.
LEMMA SessionEnds ==
  ASSUME PromotionBounds, PromotionInv, NEW s \in Sessions, Skills!Ends(s), Grows
  PROVE  SessionsInv' /\ sess' \in [Sessions -> SessionRow]
<1>1. sess \in [Sessions -> SessionRow]
  BY DEF PromotionInv, Skills!TypeOK, SessionRow
<1>0. Skills!Idle \in SessionRow
  <2>1. 0 \in 0 .. MaxVersion
    BY SMT DEF PromotionBounds
  <2> QED
    BY <2>1 DEF SessionRow, Skills!Idle, Skills!SkillRow, Skills!ApprovalState, Skills!None
<1>2. sess' \in [Sessions -> SessionRow] /\ sess'[s] = Skills!Idle /\ \A t \in Sessions : t # s
        => sess'[t] = sess[t]
  BY <1>0, <1>1 DEF Skills!Ends
<1>3. Loaded(Skills!Idle, revs', props', promo', rb')
  BY DEF Loaded, Skills!Idle
<1>4. ASSUME NEW t \in Sessions PROVE Loaded(sess'[t], revs', props', promo', rb')
  <2>1. Loaded(sess[t], revs', props', promo', rb')
    BY LoadedStays, SMT DEF Grows, PromotionInv, SessionsInv
  <2> QED
    BY <1>2, <1>3, <2>1
<1> QED
  BY <1>2, <1>4 DEF SessionsInv

\* A command is loaded.
LEMMA LoadStep ==
  ASSUME PromotionBounds, PromotionInv, NEW s \in Sessions, NEW op \in Skills!AllOps,
         NEW id \in Skills!Versions \cup Proposals \cup Rollbacks \cup {Skills!None},
           NEW row \in Skills!SkillRow,
         NEW next \in 0 .. MaxVersion, NEW was \in Skills!ApprovalState,
         Skills!LoadWith(s, op, id, row, next, was),
         Loaded([op |-> op, id |-> id, row |-> row, next |-> next, was |-> was], revs, props, promo, rb)
  PROVE  PromotionInv'
<1> DEFINE x == [op |-> op, id |-> id, row |-> row, next |-> next, was |-> was]
<1>1. x \in SessionRow
  BY DEF SessionRow
<1>2. sess' = [sess EXCEPT ![s] = x] /\ UNCHANGED Skills!tables
  BY DEF Skills!LoadWith
<1>3. Loaded(x, revs, props, promo, rb)
  OBVIOUS
<1> HIDE DEF x
<1>4. sess \in [Sessions -> SessionRow]
  BY DEF PromotionInv, Skills!TypeOK, SessionRow
<1>5. sess' \in [Sessions -> SessionRow] /\ \A t \in Sessions : sess'[t] = IF t = s THEN x ELSE sess[t]
  BY <1>1, <1>2, <1>4
<1>6. SessionsInv'
  BY <1>2, <1>3, <1>5 DEF PromotionInv, SessionsInv, Skills!tables
<1>7. Skills!TypeOK'
  BY <1>2, <1>5 DEF PromotionInv, Skills!TypeOK, SessionRow, Skills!tables
<1>8. VersionsInv' /\ RequestsInv'
  BY <1>2 DEF PromotionInv, VersionsInv, RequestsInv, Skills!tables
<1> QED
  BY <1>6, <1>7, <1>8 DEF PromotionInv

\* Skills!Ends, with nothing written.
LEMMA ConflictStep ==
  ASSUME PromotionBounds, PromotionInv, NEW s \in Sessions, Skills!Conflict(s)
  PROVE  PromotionInv'
<1>1. Skills!Ends(s) /\ UNCHANGED Skills!tables
  BY DEF Skills!Conflict
<1>2. Grows
  BY <1>1 DEF Grows, Skills!tables
<1>3. SessionsInv' /\ sess' \in [Sessions -> SessionRow]
  BY <1>1, <1>2, SessionEnds
<1>4. Skills!TypeOK'
  BY <1>1, <1>3 DEF PromotionInv, Skills!TypeOK, SessionRow, Skills!tables
<1>5. VersionsInv' /\ RequestsInv'
  BY <1>1 DEF PromotionInv, VersionsInv, RequestsInv, Skills!tables
<1> QED
  BY <1>3, <1>4, <1>5 DEF PromotionInv

-----------------------------------------------------------------------------
(* Reads *)

\* Reading the rows of a command writes none of them.
LEMMA ReadsStep ==
  ASSUME PromotionBounds, PromotionInv, NEW s \in Sessions, Skills!Reads(s)
  PROVE  PromotionInv'
<1>0. /\ Skills!Idle.row \in Skills!SkillRow /\ skill \in Skills!SkillRow /\ Skills!None \in 0 .. MaxVersion
      /\ "none" \in Skills!ApprovalState
  <2>1. 0 \in 0 .. MaxVersion
    BY SMT DEF PromotionBounds
  <2> QED
    BY <2>1 DEF Skills!Idle, Skills!SkillRow, Skills!None, Skills!ApprovalState, PromotionInv, Skills!TypeOK
<1>1. ASSUME NEW op \in Skills!AllOps,
             NEW id \in Skills!Versions \cup Proposals \cup Rollbacks \cup {Skills!None},
             NEW was \in Skills!ApprovalState, Skills!Load(s, op, id, was), op # "request",
               op # "requestBack",
             op = "revise" => id \in Skills!Versions /\ Below(id, revs),
             op = "activate" => id \in Skills!Versions,
             op = "cancelProposal" => id \in Proposals /\ props[id].status # "none",
             op \in {"promote", "stale", "reject", "cancel"} => id \in Proposals
               /\ promo[id].status # "none",
             op \in {"rollback", "staleBack", "rejectBack", "cancelBack"} =>
               id \in Rollbacks /\ rb[id].status # "none"
      PROVE  PromotionInv'
  <2>1. Loaded([op |-> op, id |-> id, row |-> Skills!Idle.row, next |-> Skills!None, was |-> was], revs,
          props, promo, rb)
    BY <1>1 DEF Loaded
  <2> QED
    BY <1>0, <1>1, <2>1, LoadStep DEF Skills!Load
<1>2. ASSUME NEW op \in Skills!AllOps,
             NEW id \in Skills!Versions \cup Proposals \cup Rollbacks \cup {Skills!None},
             Skills!LoadSkill(s, op, id), op \notin {"request", "revise", "cancelProposal"},
             op = "activate" => id \in Skills!Versions,
             op \in {"promote", "stale", "reject", "cancel"} => id \in Proposals
               /\ promo[id].status # "none",
             op = "requestBack" => id \in Skills!Versions /\ id # skill.active,
             op \in {"rollback", "staleBack", "rejectBack", "cancelBack"} =>
               id \in Rollbacks /\ rb[id].status # "none"
      PROVE  PromotionInv'
  <2>1. Loaded([op |-> op, id |-> id, row |-> skill, next |-> Skills!None, was |-> "none"], revs, props,
          promo, rb)
    BY <1>2 DEF Loaded
  <2> QED
    BY <1>0, <1>2, <2>1, LoadStep DEF Skills!LoadSkill
<1> USE DEF Skills!AllOps, Skills!SkillOps, Skills!PromotionOps, Skills!RollbackOps
<1>3. CASE Skills!LoadRevise(s)
  <2>1. Skills!NextVersion \in Skills!Versions /\ Below(Skills!NextVersion, revs)
    BY <1>3, NextIsBelow DEF Skills!LoadRevise, PromotionInv
  <2> QED
    BY <1>0, <1>1, <1>3, <2>1 DEF Skills!LoadRevise
<1>4. ASSUME NEW v \in Skills!Versions, Skills!LoadActivate(s, v) PROVE PromotionInv'
  BY <1>2, <1>4 DEF Skills!LoadActivate
<1>5. ASSUME NEW v \in Skills!Versions, Skills!LoadRequestRollback(s, v) PROVE PromotionInv'
  BY <1>2, <1>5 DEF Skills!LoadRequestRollback
<1>6. ASSUME NEW op \in Skills!SkillOps, Skills!LoadLifecycle(s, op) PROVE PromotionInv'
  BY <1>2, <1>6 DEF Skills!LoadLifecycle
<1>7. ASSUME NEW p \in Proposals, Skills!LoadCancelProposal(s, p) PROVE PromotionInv'
  BY <1>0, <1>1, <1>7 DEF Skills!LoadCancelProposal, Skills!Open
<1>8. ASSUME NEW p \in Proposals, Skills!LoadRequestPromotion(s, p) PROVE PromotionInv'
  <2>1. Skills!NextVersion \in Skills!Versions /\ Below(Skills!NextVersion, revs)
    BY <1>8, NextIsBelow DEF Skills!LoadRequestPromotion, PromotionInv
  <2>2. Skills!NextVersion \in 0 .. MaxVersion
    BY <2>1, SMT DEF Skills!Versions, PromotionBounds
  <2>3. Loaded([op |-> "request", id |-> p, row |-> skill, next |-> Skills!NextVersion, was |-> "none"],
               revs, props, promo, rb)
    BY <1>8, <2>1 DEF Skills!LoadRequestPromotion, Loaded
  <2> QED
    BY <1>0, <1>8, <2>2, <2>3, LoadStep DEF Skills!LoadRequestPromotion
<1>9. ASSUME NEW p \in Proposals, Skills!LoadPromote(s, p) PROVE PromotionInv'
  BY <1>0, <1>1, <1>2, <1>9 DEF Skills!LoadPromote
<1>10. ASSUME NEW p \in Proposals, NEW op \in Skills!PromotionOps, Skills!LoadClosePromotion(s, p, op)
              PROVE PromotionInv'
  <2>1. promo[p].approval \in Skills!ApprovalState
    BY DEF PromotionInv, Skills!TypeOK, Skills!PromotionRow
  <2> QED
    BY <1>1, <1>10, <2>1 DEF Skills!LoadClosePromotion
<1>11. ASSUME NEW r \in Rollbacks, Skills!LoadRollback(s, r) PROVE PromotionInv'
  BY <1>0, <1>1, <1>2, <1>11 DEF Skills!LoadRollback
<1>12. ASSUME NEW r \in Rollbacks, NEW op \in Skills!RollbackOps, Skills!LoadCloseRollback(s, r, op)
              PROVE PromotionInv'
  <2>1. rb[r].approval \in Skills!ApprovalState
    BY DEF PromotionInv, Skills!TypeOK, Skills!RollbackRow
  <2> QED
    BY <1>1, <1>12, <2>1 DEF Skills!LoadCloseRollback
<1> QED
  BY <1>3, <1>4, <1>5, <1>6, <1>7, <1>8, <1>9, <1>10, <1>11, <1>12 DEF Skills!Reads

-----------------------------------------------------------------------------
(* Writes *)

\* A revision is inserted after the ones that are there.
LEMMA RevisionAdded ==
  ASSUME PromotionBounds, PromotionInv, NEW v \in Skills!Versions, NEW y \in Skills!RevisionRow, y # "none",
         Below(v, revs), revs' = [revs EXCEPT ![v] = y]
  PROVE  /\ revs' \in [Skills!Versions -> Skills!RevisionRow] /\ VersionsInv'
         /\ \A u \in Skills!Versions : revs[u] # "none" => revs'[u] # "none"
<1>1. revs \in [Skills!Versions -> Skills!RevisionRow]
  BY DEF PromotionInv, Skills!TypeOK
<1>2. \A u \in Skills!Versions : revs'[u] = IF u = v THEN y ELSE revs[u]
  BY <1>1
<1>3. \A n : Below(n, revs) => Below(n, revs')
  BY <1>2 DEF Below
<1> QED
  BY <1>1, <1>2, <1>3 DEF PromotionInv, VersionsInv

\* Requests that are kept, or made as Skills!RequestSkillPromotion makes them.
LEMMA RequestsKept ==
  ASSUME PromotionInv, Grows,
         \A p \in Proposals : props'[p].status # "none" =>
           props[p].status # "none" \/ (props'[p].base \in Skills!Versions
             /\ revs'[props'[p].base] # "none"),
         \A p \in Proposals : promo'[p].status # "none" =>
           \/ /\ promo[p].status # "none" /\ promo'[p].expected = promo[p].expected
              /\ promo'[p].target = promo[p].target
           \/ /\ props[p].status # "none" /\ promo'[p].expected = props[p].base
              /\ promo'[p].target \in Skills!Versions /\ Below(promo'[p].target, revs)
  PROVE  RequestsInv'
<1>1. \A n : Below(n, revs) => Below(n, revs')
  BY DEF Grows, Below
<1> QED
  BY <1>1 DEF PromotionInv, RequestsInv, Grows

\* A write that touches neither revisions nor requests for promotion.
LEMMA OtherWrite ==
  ASSUME PromotionBounds, PromotionInv, NEW s \in Sessions, Skills!Ends(s), skill' \in Skills!SkillRow,
         rb' \in [Rollbacks -> Skills!RollbackRow], UNCHANGED <<revs, props, promo>>,
         \A r \in Rollbacks : rb[r].status # "none" => rb'[r].status # "none"
  PROVE  PromotionInv'
<1>1. Grows
  BY DEF Grows
<1>2. SessionsInv' /\ sess' \in [Sessions -> SessionRow]
  BY <1>1, SessionEnds
<1>3. Skills!TypeOK'
  BY <1>2 DEF PromotionInv, Skills!TypeOK, SessionRow
<1>4. VersionsInv' /\ RequestsInv'
  BY DEF PromotionInv, VersionsInv, RequestsInv
<1> QED
  BY <1>2, <1>3, <1>4 DEF PromotionInv

\* The conditional update of the skill row touches no revision and no request.
LEMMA SaveStep ==
  ASSUME PromotionBounds, PromotionInv, NEW s \in Sessions, NEW row \in Skills!SkillRow, Skills!SaveSkill(s,
         row)
  PROVE  PromotionInv'
<1>1. rb \in [Rollbacks -> Skills!RollbackRow]
  BY DEF PromotionInv, Skills!TypeOK
<1> QED
  BY <1>1, ConflictStep, OtherWrite DEF Skills!SaveSkill

\* Skills!CreateSkillRevision inserts the version after the last one.
LEMMA ReviseStep ==
  ASSUME PromotionBounds, PromotionInv, NEW s \in Sessions, Skills!CreateSkillRevision(s)
  PROVE  PromotionInv'
<1>1. CASE Skills!Conflict(s)
  BY <1>1, ConflictStep
<1>2. CASE /\ revs' = [revs EXCEPT ![sess[s].id] = "operator"]
           /\ Skills!Ends(s) /\ UNCHANGED <<skill, props, promo, rb>>
  <2>1. sess[s].id \in Skills!Versions /\ Below(sess[s].id, revs)
    BY DEF Skills!CreateSkillRevision, Skills!Holds, PromotionInv, SessionsInv, Loaded
  <2>2. /\ revs' \in [Skills!Versions -> Skills!RevisionRow] /\ VersionsInv'
        /\ \A u \in Skills!Versions : revs[u] # "none" => revs'[u] # "none"
    BY <1>2, <2>1, RevisionAdded DEF Skills!RevisionRow
  <2>3. Grows
    BY <1>2, <2>2 DEF Grows
  <2>4. SessionsInv' /\ sess' \in [Sessions -> SessionRow]
    BY <1>2, <2>3, SessionEnds
  <2>5. RequestsInv'
    BY <1>2, <2>3, RequestsKept
  <2>6. Skills!TypeOK'
    BY <1>2, <2>2, <2>4 DEF PromotionInv, Skills!TypeOK, SessionRow
  <2> QED
    BY <2>2, <2>4, <2>5, <2>6 DEF PromotionInv
<1> QED
  BY <1>1, <1>2 DEF Skills!CreateSkillRevision

\* Cancelling a proposal keeps its base.
LEMMA CancelProposalStep ==
  ASSUME PromotionBounds, PromotionInv, NEW s \in Sessions, Skills!CancelProposal(s)
  PROVE  PromotionInv'
<1> DEFINE p == sess[s].id
<1>1. /\ props' = [props EXCEPT ![p].status = "cancelled"]
      /\ Skills!Ends(s) /\ UNCHANGED <<skill, revs, promo, rb>>
  BY DEF Skills!CancelProposal
<1>2. p \in Proposals /\ props[p].status # "none" /\ props \in [Proposals -> Skills!ProposalRow]
  BY DEF Skills!CancelProposal, Skills!Holds, PromotionInv, SessionsInv, Loaded, Skills!TypeOK
<1> HIDE DEF p
<1>3. /\ props' \in [Proposals -> Skills!ProposalRow]
      /\ \A q \in Proposals : props'[q].base = props[q].base
      /\ \A q \in Proposals : props'[q].status # "none" <=> props[q].status # "none"
  BY <1>1, <1>2 DEF Skills!ProposalRow
<1>4. Grows
  BY <1>1, <1>3 DEF Grows
<1>5. SessionsInv' /\ sess' \in [Sessions -> SessionRow]
  BY <1>1, <1>4, SessionEnds
<1>6. RequestsInv'
  BY <1>1, <1>3, <1>4, RequestsKept
<1>7. Skills!TypeOK'
  BY <1>1, <1>3, <1>5 DEF PromotionInv, Skills!TypeOK, SessionRow
<1>8. VersionsInv'
  BY <1>1 DEF PromotionInv, VersionsInv
<1> QED
  BY <1>5, <1>6, <1>7, <1>8 DEF PromotionInv

\* Skills!RequestSkillPromotion expects the base that was reviewed, as it is active.
LEMMA RequestStep ==
  ASSUME PromotionBounds, PromotionInv, NEW s \in Sessions, Skills!RequestSkillPromotion(s)
  PROVE  PromotionInv'
<1>1. CASE Skills!Conflict(s)
  BY <1>1, ConflictStep
<1>2. CASE ~Skills!Conflict(s)
  <2> DEFINE p == sess[s].id
             x == [status |-> "pending", expected |-> sess[s].row.active, target |-> sess[s].next,
                   approval |-> "pending"]
  <2>1. promo' = [promo EXCEPT ![p] = x] /\ Skills!Ends(s) /\ UNCHANGED <<skill, revs, props, rb>>
    BY <1>2 DEF Skills!RequestSkillPromotion
  <2>2. /\ p \in Proposals /\ props[p].status # "none" /\ sess[s].row.active = props[p].base
        /\ sess[s].next \in Skills!Versions /\ Below(sess[s].next, revs)
    BY DEF Skills!RequestSkillPromotion, Skills!Holds, PromotionInv, SessionsInv, Loaded
  <2>3. sess[s].row.active \in 0 .. MaxVersion /\ sess[s].next \in 0 .. MaxVersion
    BY DEF PromotionInv, Skills!TypeOK, Skills!SkillRow
  <2>4. /\ x \in Skills!PromotionRow /\ x.status = "pending" /\ x.expected = props[p].base
        /\ x.target \in Skills!Versions /\ Below(x.target, revs)
    BY <2>2, <2>3 DEF Skills!PromotionRow, Skills!ApprovalState
  <2> HIDE DEF p, x
  <2>5. promo \in [Proposals -> Skills!PromotionRow]
    BY DEF PromotionInv, Skills!TypeOK
  <2>6. /\ promo' \in [Proposals -> Skills!PromotionRow]
        /\ \A q \in Proposals : promo'[q] = IF q = p THEN x ELSE promo[q]
    BY <2>1, <2>4, <2>5
  <2>7. Grows
    BY <2>1, <2>4, <2>6 DEF Grows
  <2>8. SessionsInv' /\ sess' \in [Sessions -> SessionRow]
    BY <2>1, <2>7, SessionEnds
  <2>9. RequestsInv'
    BY <2>1, <2>2, <2>4, <2>6, <2>7, RequestsKept
  <2>10. Skills!TypeOK'
    BY <2>1, <2>6, <2>8 DEF PromotionInv, Skills!TypeOK, SessionRow
  <2>11. VersionsInv'
    BY <2>1 DEF PromotionInv, VersionsInv
  <2> QED
    BY <2>8, <2>9, <2>10, <2>11 DEF PromotionInv
<1> QED
  BY <1>1, <1>2

\* Both rows of a request are closed, and keep what they say.
LEMMA Closed ==
  ASSUME PromotionInv, NEW p \in Proposals, promo[p].status # "none",
         NEW status \in {"rejected", "stale", "cancelled", "promoted"},
         NEW proposal \in {"rejected", "superseded", "cancelled", "promoted"},
         NEW approval \in Skills!ApprovalState, Skills!Close(p, status, proposal, approval)
  PROVE  /\ promo' \in [Proposals -> Skills!PromotionRow] /\ props' \in [Proposals -> Skills!ProposalRow]
         /\ promo'[p].approval = approval
         /\ \A q \in Proposals :
              /\ props'[q].base = props[q].base /\ (props'[q].status # "none" <=> props[q].status # "none")
              /\ promo'[q].expected = promo[q].expected /\ promo'[q].target = promo[q].target
              /\ promo'[q].status # "none" <=> promo[q].status # "none"
<1>1. promo \in [Proposals -> Skills!PromotionRow] /\ props \in [Proposals -> Skills!ProposalRow]
  BY DEF PromotionInv, Skills!TypeOK
<1>2. props[p].status # "none"
  BY DEF PromotionInv, RequestsInv
<1>3. /\ promo' \in [Proposals -> Skills!PromotionRow] /\ promo'[p].approval = approval
      /\ \A q \in Proposals :
           /\ promo'[q].expected = promo[q].expected /\ promo'[q].target = promo[q].target
           /\ promo'[q].status # "none" <=> promo[q].status # "none"
  BY <1>1 DEF Skills!Close, Skills!PromotionRow
<1>4. /\ props' \in [Proposals -> Skills!ProposalRow]
      /\ \A q \in Proposals :
           props'[q].base = props[q].base /\ (props'[q].status # "none" <=> props[q].status # "none")
  BY <1>1, <1>2 DEF Skills!Close, Skills!ProposalRow
<1> QED
  BY <1>3, <1>4

\* _stage_terminal_promotion, with the end of the session.
LEMMA CloseStep ==
  ASSUME PromotionBounds, PromotionInv, NEW s \in Sessions, NEW p \in Proposals, promo[p].status # "none",
         NEW status \in {"rejected", "stale", "cancelled", "promoted"},
         NEW proposal \in {"rejected", "superseded", "cancelled", "promoted"},
         NEW approval \in Skills!ApprovalState, Skills!Close(p, status, proposal, approval),
         Skills!Ends(s), UNCHANGED rb, skill' \in Skills!SkillRow,
           revs' \in [Skills!Versions -> Skills!RevisionRow], VersionsInv',
         \A u \in Skills!Versions : revs[u] # "none" => revs'[u] # "none"
  PROVE  PromotionInv'
<1>1. /\ promo' \in [Proposals -> Skills!PromotionRow] /\ props' \in [Proposals -> Skills!ProposalRow]
      /\ \A q \in Proposals :
           /\ props'[q].base = props[q].base /\ (props'[q].status # "none" <=> props[q].status # "none")
           /\ promo'[q].expected = promo[q].expected /\ promo'[q].target = promo[q].target
           /\ promo'[q].status # "none" <=> promo[q].status # "none"
  BY Closed
<1>2. Grows
  BY <1>1 DEF Grows
<1>3. SessionsInv' /\ sess' \in [Sessions -> SessionRow]
  BY <1>2, SessionEnds
<1>4. RequestsInv'
  BY <1>1, <1>2, RequestsKept
<1>5. Skills!TypeOK'
  BY <1>1, <1>3 DEF PromotionInv, Skills!TypeOK, SessionRow
<1> QED
  BY <1>3, <1>4, <1>5 DEF PromotionInv

\* A request for promotion that is closed keeps what it expects and its target.
LEMMA StaleStep ==
  ASSUME PromotionBounds, PromotionInv, NEW s \in Sessions, Skills!StalePromotion(s)
         \/ Skills!ClosePromotion(s)
  PROVE  PromotionInv'
<1> DEFINE p == sess[s].id
<1>1. /\ p \in Proposals /\ promo[p].status # "none" /\ promo[p].approval \in Skills!ApprovalState
  BY DEF Skills!StalePromotion, Skills!ClosePromotion, Skills!Holds, PromotionInv, SessionsInv, Loaded,
     Skills!TypeOK, Skills!PromotionRow
<1>2. /\ Skills!Ends(s) /\ UNCHANGED <<skill, revs, rb>>
      /\ skill' \in Skills!SkillRow /\ revs' \in [Skills!Versions -> Skills!RevisionRow] /\ VersionsInv'
  BY DEF Skills!StalePromotion, Skills!ClosePromotion, PromotionInv, Skills!TypeOK, VersionsInv
<1>3. CASE Skills!StalePromotion(s)
  <2>1. Skills!Close(p, "stale", "superseded", promo[p].approval)
    BY <1>3 DEF Skills!StalePromotion
  <2> HIDE DEF p
  <2> QED
    BY <1>1, <1>2, <2>1, CloseStep
<1>4. CASE Skills!ClosePromotion(s)
  <2>1. PICK end \in {"rejected", "cancelled"} : \E a \in {end, promo[p].approval} : Skills!Close(p, end,
          end, a)
    BY <1>4 DEF Skills!ClosePromotion
  <2>2. PICK a \in {end, promo[p].approval} : Skills!Close(p, end, end, a)
    BY <2>1
  <2>3. a \in Skills!ApprovalState
    BY <1>1 DEF Skills!ApprovalState
  <2> HIDE DEF p
  <2> QED
    BY <1>1, <1>2, <2>2, <2>3, CloseStep
<1> QED
  BY <1>3, <1>4

\* What the transaction of Skills!ExecuteSkillPromotion finds and writes.
LEMMA PromoteFacts ==
  ASSUME PromotionBounds, PromotionInv, NEW s \in Sessions, Skills!ExecuteSkillPromotion(s),
         ~Skills!Conflict(s)
  PROVE  /\ sess[s].id \in Proposals /\ Skills!GeneratedAllowed(sess[s].id, promo[sess[s].id].target)
         /\ promo[sess[s].id].target \in Skills!Versions /\ revs[promo[sess[s].id].target] = "none"
         /\ Below(promo[sess[s].id].target, revs)
         /\ promo[sess[s].id].expected = props[sess[s].id].base
         /\ props[sess[s].id].base \in Skills!Versions /\ revs[props[sess[s].id].base] # "none"
         /\ revs' = [revs EXCEPT ![promo[sess[s].id].target] = sess[s].id]
         /\ Skills!Close(sess[s].id, "promoted", "promoted", "consumed")
         /\ skill' = Skills!Activated(sess[s].row, promo[sess[s].id].target) /\ Skills!Ends(s)
              /\ UNCHANGED rb
<1> DEFINE p == sess[s].id
           v == promo[p].target
<1>1. /\ Skills!GeneratedAllowed(p, v) /\ ~Skills!Exists(v) /\ revs' = [revs EXCEPT ![v] = p]
      /\ Skills!Close(p, "promoted", "promoted", "consumed")
      /\ skill' = Skills!Activated(sess[s].row, v) /\ Skills!Ends(s) /\ UNCHANGED rb
  BY DEF Skills!ExecuteSkillPromotion
<1>2. p \in Proposals /\ promo[p].status # "none"
  BY DEF Skills!ExecuteSkillPromotion, Skills!Holds, PromotionInv, SessionsInv, Loaded
<1>3. /\ v \in Skills!Versions /\ Below(v, revs) /\ promo[p].expected = props[p].base
      /\ props[p].base \in Skills!Versions /\ revs[props[p].base] # "none"
  BY <1>2 DEF PromotionInv, RequestsInv
<1>4. revs[v] = "none"
  BY <1>1, <1>3 DEF Skills!Exists
<1> QED
  BY <1>1, <1>2, <1>3, <1>4

\* Skills!ExecuteSkillPromotion inserts the revision its request was numbered for.
LEMMA PromoteStep ==
  ASSUME PromotionBounds, PromotionInv, NEW s \in Sessions, Skills!ExecuteSkillPromotion(s)
  PROVE  PromotionInv'
<1>1. CASE Skills!Conflict(s)
  BY <1>1, ConflictStep
<1>2. CASE ~Skills!Conflict(s)
  <2> DEFINE p == sess[s].id
             v == promo[p].target
  <2>1. /\ p \in Proposals /\ v \in Skills!Versions /\ Below(v, revs) /\ revs' = [revs EXCEPT ![v] = p]
        /\ Skills!Close(p, "promoted", "promoted", "consumed")
        /\ skill' = Skills!Activated(sess[s].row, v) /\ Skills!Ends(s) /\ UNCHANGED rb
             /\ Skills!GeneratedAllowed(p, v)
    BY <1>2, PromoteFacts
  <2>2. sess[s].row \in Skills!SkillRow
    BY DEF PromotionInv, Skills!TypeOK
  <2> HIDE DEF p, v
  <2>3. v \in 0 .. MaxVersion
    BY <2>1, SMT DEF Skills!Versions, PromotionBounds
  <2>4. skill' \in Skills!SkillRow
    BY <2>1, <2>2, <2>3 DEF Skills!Activated, Skills!SkillRow
  <2>5. p \in Skills!RevisionRow /\ p # "none"
    BY <2>1 DEF Skills!RevisionRow, PromotionBounds
  <2>6. /\ revs' \in [Skills!Versions -> Skills!RevisionRow] /\ VersionsInv'
        /\ \A u \in Skills!Versions : revs[u] # "none" => revs'[u] # "none"
    BY <2>1, <2>5, RevisionAdded
  <2>7. promo[p].status # "none" /\ "consumed" \in Skills!ApprovalState
    BY <2>1 DEF Skills!GeneratedAllowed, Skills!ApprovalState
  <2> QED
    BY <2>1, <2>4, <2>6, <2>7, CloseStep
<1> QED
  BY <1>1, <1>2

\* A rollback request gets another status, once it has one, or another approval.
LEMMA RollbackWritten ==
  ASSUME PromotionInv, NEW r \in Rollbacks, NEW approval \in Skills!ApprovalState,
         NEW status \in {"none", "pending", "rejected", "stale", "cancelled", "completed"},
         rb[r].status # "none" <=> status # "none",
         rb' = [rb EXCEPT ![r] = [rb[r] EXCEPT !.status = status, !.approval = approval]]
  PROVE  /\ rb' \in [Rollbacks -> Skills!RollbackRow]
         /\ \A q \in Rollbacks : rb[q].status # "none" => rb'[q].status # "none"
<1> DEFINE x == [rb[r] EXCEPT !.status = status, !.approval = approval]
<1>1. rb \in [Rollbacks -> Skills!RollbackRow] /\ rb[r] \in Skills!RollbackRow
  BY DEF PromotionInv, Skills!TypeOK
<1>2. x \in Skills!RollbackRow /\ x.status = status
  BY <1>1 DEF Skills!RollbackRow
<1>3. rb' = [rb EXCEPT ![r] = x]
  OBVIOUS
<1> HIDE DEF x
<1>4. rb' \in [Rollbacks -> Skills!RollbackRow] /\ \A q \in Rollbacks : rb'[q] = IF q = r THEN x ELSE rb[q]
  BY <1>1, <1>2, <1>3
<1> QED
  BY <1>2, <1>4

\* Skills!RequestSkillRollback names a version other than the active one.
LEMMA RequestBackStep ==
  ASSUME PromotionBounds, PromotionInv, NEW s \in Sessions, Skills!RequestSkillRollback(s)
  PROVE  PromotionInv'
<1> DEFINE x == [status |-> "pending", expected |-> sess[s].row.active, target |-> sess[s].id,
                 approval |-> "pending"]
<1>1. /\ sess[s].id \in Skills!Versions /\ sess[s].id # sess[s].row.active
      /\ sess[s].row.active \in 0 .. MaxVersion /\ skill \in Skills!SkillRow
           /\ rb \in [Rollbacks -> Skills!RollbackRow]
  BY DEF Skills!RequestSkillRollback, Skills!Holds, PromotionInv, SessionsInv, Loaded, Skills!TypeOK,
     Skills!SkillRow
<1>2. sess[s].id \in 0 .. MaxVersion
  BY <1>1, SMT DEF Skills!Versions, PromotionBounds
<1>3. x \in Skills!RollbackRow /\ x.status = "pending"
  BY <1>1, <1>2 DEF Skills!RollbackRow, Skills!ApprovalState
<1>4. PICK r \in Rollbacks : rb' = [rb EXCEPT ![r] = x]
  BY DEF Skills!RequestSkillRollback
<1> HIDE DEF x
<1>5. rb' \in [Rollbacks -> Skills!RollbackRow] /\ \A q \in Rollbacks : rb'[q] = IF q = r THEN x ELSE rb[q]
  BY <1>1, <1>3, <1>4
<1>6. \A q \in Rollbacks : rb[q].status # "none" => rb'[q].status # "none"
  BY <1>3, <1>5
<1> QED
  BY <1>1, <1>5, <1>6, OtherWrite DEF Skills!RequestSkillRollback

\* A rollback that is applied or closed writes its own row and the pointer.
LEMMA BackStep ==
  ASSUME PromotionBounds, PromotionInv, NEW s \in Sessions,
         Skills!StaleRollback(s) \/ Skills!ExecuteSkillRollback(s) \/ Skills!CloseRollback(s)
  PROVE  PromotionInv'
<1> DEFINE r == sess[s].id
<1>1. /\ r \in Rollbacks /\ rb[r].status # "none" /\ rb \in [Rollbacks -> Skills!RollbackRow]
      /\ skill \in Skills!SkillRow /\ sess[s].row \in Skills!SkillRow
  BY DEF Skills!StaleRollback, Skills!ExecuteSkillRollback, Skills!CloseRollback, Skills!Holds,
     PromotionInv, SessionsInv, Loaded, Skills!TypeOK
<1>2. rb[r].approval \in Skills!ApprovalState /\ rb[r].target \in 0 .. MaxVersion
  BY <1>1 DEF Skills!RollbackRow
<1> HIDE DEF r
<1>3. ASSUME NEW status \in {"rejected", "stale", "cancelled", "completed"},
             NEW approval \in Skills!ApprovalState,
             rb' = [rb EXCEPT ![r].status = status, ![r].approval = approval], Skills!Ends(s),
               skill' \in Skills!SkillRow,
             UNCHANGED <<revs, props, promo>>
      PROVE  PromotionInv'
  <2>1. rb' = [rb EXCEPT ![r] = [rb[r] EXCEPT !.status = status, !.approval = approval]]
    BY <1>1, <1>3 DEF Skills!RollbackRow
  <2>2. /\ rb' \in [Rollbacks -> Skills!RollbackRow]
        /\ \A q \in Rollbacks : rb[q].status # "none" => rb'[q].status # "none"
    BY <1>1, <2>1, RollbackWritten
  <2> QED
    BY <1>3, <2>2, OtherWrite
<1>4. CASE Skills!StaleRollback(s)
  <2>1. rb' = [rb EXCEPT ![r].status = "stale"]
    BY <1>4 DEF Skills!StaleRollback, r
  <2>2. rb' = [rb EXCEPT ![r].status = "stale", ![r].approval = rb[r].approval]
    BY <1>1, <2>1 DEF Skills!RollbackRow
  <2> QED
    BY <1>1, <1>2, <1>3, <1>4, <2>2 DEF Skills!StaleRollback
<1>5. CASE Skills!ExecuteSkillRollback(s)
  <2>1. CASE Skills!Conflict(s)
    BY <2>1, ConflictStep
  <2>2. CASE ~Skills!Conflict(s)
    <3>1. /\ skill' = Skills!Activated(sess[s].row, rb[r].target) /\ Skills!Ends(s) /\ UNCHANGED <<revs,
               props, promo>>
          /\ rb' = [rb EXCEPT ![r].status = "completed", ![r].approval = "consumed"]
      BY <1>5, <2>2 DEF Skills!ExecuteSkillRollback, r
    <3>2. skill' \in Skills!SkillRow
      BY <1>1, <1>2, <3>1 DEF Skills!Activated, Skills!SkillRow
    <3> QED
      BY <1>3, <3>1, <3>2 DEF Skills!ApprovalState
  <2> QED
    BY <2>1, <2>2
<1>6. CASE Skills!CloseRollback(s)
  <2> DEFINE end == IF sess[s].op = "rejectBack" THEN "rejected" ELSE "cancelled"
             a == IF sess[s].was = "pending" THEN end ELSE rb[r].approval
  <2>1. rb' = [rb EXCEPT ![r].status = end, ![r].approval = a]
    BY <1>1, <1>6 DEF Skills!CloseRollback, r
  <2>2. end \in {"rejected", "cancelled"} /\ a \in Skills!ApprovalState
    BY <1>2 DEF Skills!ApprovalState
  <2> HIDE DEF end, a
  <2> QED
    BY <1>1, <1>3, <1>6, <2>1, <2>2 DEF Skills!CloseRollback
<1> QED
  BY <1>4, <1>5, <1>6

-----------------------------------------------------------------------------
(* Reviews and approvals *)

\* Proposals are generated and reviewed, and approvals are decided.
LEMMA EnvironmentStep ==
  ASSUME PromotionBounds, PromotionInv, Skills!Environment
  PROVE  PromotionInv'
<1>0. /\ props \in [Proposals -> Skills!ProposalRow] /\ promo \in [Proposals -> Skills!PromotionRow]
      /\ rb \in [Rollbacks -> Skills!RollbackRow]
  BY DEF PromotionInv, Skills!TypeOK
<1>1. ASSUME Grows, UNCHANGED sess PROVE SessionsInv'
  BY <1>1, LoadedStays, SMT DEF Grows, PromotionInv, SessionsInv
<1>2. ASSUME NEW p \in Proposals, NEW v \in Skills!Versions, NEW e \in BOOLEAN, Skills!ReadyForReview(p, v,
             e)
      PROVE  PromotionInv'
  <2> DEFINE x == [status |-> "ready", base |-> v, eligible |-> e]
  <2>1. v \in 0 .. MaxVersion
    BY SMT DEF Skills!Versions, PromotionBounds
  <2>2. x \in Skills!ProposalRow /\ x.status = "ready" /\ x.base = v
    BY <2>1 DEF Skills!ProposalRow, Skills!Open
  <2>3. props' = [props EXCEPT ![p] = x] /\ UNCHANGED <<skill, revs, promo, rb, sess>>
    BY <1>2 DEF Skills!ReadyForReview
  <2>4. props[p].status = "none" /\ revs[v] # "none"
    BY <1>2 DEF Skills!ReadyForReview, Skills!Exists
  <2> HIDE DEF x
  <2>5. props' \in [Proposals -> Skills!ProposalRow]
          /\ \A q \in Proposals : props'[q] = IF q = p THEN x ELSE props[q]
    BY <1>0, <2>2, <2>3
  <2>6. Grows
    BY <2>3, <2>4, <2>5 DEF Grows
  <2>7. RequestsInv'
    BY <2>2, <2>3, <2>4, <2>5, <2>6, RequestsKept
  <2>8. Skills!TypeOK' /\ VersionsInv'
    BY <2>3, <2>5 DEF PromotionInv, Skills!TypeOK, VersionsInv
  <2> QED
    BY <1>1, <2>3, <2>6, <2>7, <2>8 DEF PromotionInv
<1>3. ASSUME NEW p \in Proposals, NEW a \in Skills!ApprovalState, Skills!ResolveApproval(p, a)
      PROVE  PromotionInv'
  <2>1. promo' = [promo EXCEPT ![p].approval = a] /\ UNCHANGED <<skill, revs, props, rb, sess>>
    BY <1>3 DEF Skills!ResolveApproval
  <2>2. /\ promo' \in [Proposals -> Skills!PromotionRow]
        /\ \A q \in Proposals : /\ promo'[q].status = promo[q].status /\ promo'[q].target = promo[q].target
                                /\ promo'[q].expected = promo[q].expected
    BY <1>0, <2>1 DEF Skills!PromotionRow
  <2>3. Grows
    BY <2>1, <2>2 DEF Grows
  <2>4. RequestsInv'
    BY <2>1, <2>2, <2>3, RequestsKept
  <2>5. Skills!TypeOK' /\ VersionsInv'
    BY <2>1, <2>2 DEF PromotionInv, Skills!TypeOK, VersionsInv
  <2> QED
    BY <1>1, <2>1, <2>3, <2>4, <2>5 DEF PromotionInv
<1>4. ASSUME NEW r \in Rollbacks, NEW a \in Skills!ApprovalState, Skills!ResolveRollbackApproval(r, a)
      PROVE  PromotionInv'
  <2>1. rb' = [rb EXCEPT ![r].approval = a] /\ UNCHANGED <<skill, revs, props, promo, sess>>
    BY <1>4 DEF Skills!ResolveRollbackApproval
  <2>2. rb' = [rb EXCEPT ![r] = [rb[r] EXCEPT !.status = rb[r].status, !.approval = a]]
    BY <1>0, <2>1 DEF Skills!RollbackRow
  <2>3. rb[r].status \in {"none", "pending", "rejected", "stale", "cancelled", "completed"}
    BY <1>0 DEF Skills!RollbackRow
  <2>4. /\ rb' \in [Rollbacks -> Skills!RollbackRow]
        /\ \A q \in Rollbacks : rb[q].status # "none" => rb'[q].status # "none"
    BY <2>2, <2>3, RollbackWritten
  <2>5. Grows
    BY <2>1, <2>4 DEF Grows
  <2>6. Skills!TypeOK' /\ VersionsInv' /\ RequestsInv'
    BY <2>1, <2>4 DEF PromotionInv, Skills!TypeOK, VersionsInv, RequestsInv
  <2> QED
    BY <1>1, <2>1, <2>5, <2>6 DEF PromotionInv
<1> QED
  BY <1>2, <1>3, <1>4 DEF Skills!Environment

-----------------------------------------------------------------------------
(* The theorems *)

\* Every write keeps the invariant.
LEMMA WritesStep ==
  ASSUME PromotionBounds, PromotionInv, NEW s \in Sessions, Skills!Writes(s)
  PROVE  PromotionInv'
<1>1. sess[s].row \in Skills!SkillRow
  BY DEF PromotionInv, Skills!TypeOK
<1>2. CASE Skills!ActivateSkillRevision(s)
  <2>1. sess[s].id \in 0 .. MaxVersion
    BY <1>2, SMT DEF Skills!ActivateSkillRevision, Skills!Holds, PromotionInv, SessionsInv, Loaded,
       Skills!Versions, PromotionBounds
  <2>2. Skills!Activated(sess[s].row, sess[s].id) \in Skills!SkillRow
    BY <1>1, <2>1 DEF Skills!Activated, Skills!SkillRow
  <2> QED
    BY <1>2, <2>2, SaveStep DEF Skills!ActivateSkillRevision
<1>3. Skills!Disabled(sess[s].row) \in Skills!SkillRow /\ Skills!Archived(sess[s].row) \in Skills!SkillRow
  BY <1>1 DEF Skills!Disabled, Skills!Archived, Skills!SkillRow
<1> QED
  BY <1>2, <1>3, SaveStep, ReviseStep, CancelProposalStep, RequestStep, StaleStep, PromoteStep,
     RequestBackStep,
     BackStep DEF Skills!Writes, Skills!DisableSkill, Skills!ArchiveSkill

\* Two revisions by an operator and no request: the invariant holds initially.
LEMMA PromotionInit == ASSUME PromotionBounds, Skills!Init PROVE PromotionInv
<1>1. 0 \in 0 .. MaxVersion /\ 1 \in 0 .. MaxVersion
  BY SMT DEF PromotionBounds
<1>2. Skills!NoRequest \in Skills!PromotionRow /\ Skills!NoRequest \in Skills!RollbackRow
  BY <1>1 DEF Skills!NoRequest, Skills!PromotionRow, Skills!RollbackRow, Skills!ApprovalState, Skills!None
<1>3. Skills!Idle \in SessionRow
  BY <1>1 DEF SessionRow, Skills!Idle, Skills!SkillRow, Skills!ApprovalState, Skills!None
<1>4. [status |-> "none", base |-> Skills!None, eligible |-> FALSE] \in Skills!ProposalRow
  BY <1>1 DEF Skills!ProposalRow, Skills!None
<1>5. skill \in Skills!SkillRow /\ revs \in [Skills!Versions -> Skills!RevisionRow]
  BY <1>1 DEF Skills!Init, Skills!SkillRow, Skills!RevisionRow
<1>6. Skills!TypeOK
  BY <1>2, <1>3, <1>4, <1>5 DEF Skills!Init, Skills!TypeOK, SessionRow
<1>7. VersionsInv
  <2>1. \A v \in Skills!Versions : revs[v] # "none" => v <= 2
    BY DEF Skills!Init
  <2>2. \A v \in Skills!Versions : v <= 2 => revs[v] # "none"
    BY DEF Skills!Init
  <2>3. \A v \in Skills!Versions : v <= 2 => \A w \in 1 .. (v - 1) : w <= 2
    BY SMT DEF Skills!Versions, PromotionBounds
  <2> QED
    BY <2>1, <2>2, <2>3 DEF VersionsInv, Below
<1>8. RequestsInv
  BY DEF Skills!Init, RequestsInv, Skills!NoRequest
<1>9. SessionsInv
  BY DEF Skills!Init, SessionsInv, Loaded, Skills!Idle
<1> QED
  BY <1>6, <1>7, <1>8, <1>9 DEF PromotionInv

\* The inductive invariant of the commands on a Skill, in whatever order they
\* load and commit.
THEOREM PromotionInvariant == ASSUME PromotionBounds PROVE Skills!Spec => []PromotionInv
<1>1. Skills!Init => PromotionInv
  BY PromotionInit
<1>2. PromotionInv /\ [Skills!Next]_(Skills!vars) => PromotionInv'
  <2>1. ASSUME PromotionInv, UNCHANGED Skills!vars PROVE PromotionInv'
    BY <2>1 DEF Skills!vars, Skills!tables, PromotionInv, Skills!TypeOK, VersionsInv, RequestsInv,
       SessionsInv
  <2> QED
    BY <2>1, EnvironmentStep, ReadsStep, WritesStep DEF Skills!Next
<1> QED
  BY <1>1, <1>2, PTL DEF Skills!Spec

\* The one step that stores a generated revision is Skills!ExecuteSkillPromotion.
LEMMA GeneratedBy ==
  ASSUME PromotionBounds, PromotionInv, [Skills!Next]_(Skills!vars), NEW p \in Proposals,
         NEW v \in Skills!Versions,
         revs[v] = "none", revs'[v] = p
  PROVE  \E s \in Sessions : Skills!ExecuteSkillPromotion(s) /\ ~Skills!Conflict(s) /\ p = sess[s].id
         /\ v = promo[p].target
<1>1. revs' # revs /\ revs \in [Skills!Versions -> Skills!RevisionRow] /\ p # "operator" /\ p # "none"
  BY DEF PromotionInv, Skills!TypeOK, PromotionBounds
<1>2. PICK s \in Sessions : Skills!CreateSkillRevision(s) \/ Skills!ExecuteSkillPromotion(s)
  <2>1. ~UNCHANGED Skills!vars /\ ~Skills!Environment
    BY <1>1 DEF Skills!vars, Skills!tables, Skills!Environment, Skills!ReadyForReview,
       Skills!ResolveApproval, Skills!ResolveRollbackApproval
  <2>2. \A s \in Sessions : ~Skills!Reads(s)
    BY <1>1, SMT DEF Skills!Reads, Skills!LoadRevise, Skills!LoadActivate, Skills!LoadRequestRollback,
       Skills!LoadLifecycle, Skills!LoadCancelProposal,
                Skills!LoadRequestPromotion, Skills!LoadPromote, Skills!LoadClosePromotion,
                  Skills!LoadRollback, Skills!LoadCloseRollback,
                Skills!Load, Skills!LoadSkill, Skills!LoadWith, Skills!tables
  <2>3. PICK s \in Sessions : Skills!Writes(s)
    BY <2>1, <2>2 DEF Skills!Next
  <2> QED
    BY <1>1, <2>3 DEF Skills!Writes, Skills!ActivateSkillRevision, Skills!DisableSkill, Skills!ArchiveSkill,
       Skills!SaveSkill, Skills!Conflict, Skills!tables,
                      Skills!CancelProposal, Skills!RequestSkillPromotion, Skills!StalePromotion,
                        Skills!ClosePromotion,
                      Skills!RequestSkillRollback, Skills!StaleRollback, Skills!ExecuteSkillRollback,
                        Skills!CloseRollback
<1>3. ~Skills!Conflict(s)
  BY <1>1 DEF Skills!Conflict, Skills!tables
<1>4. ~Skills!CreateSkillRevision(s)
  BY <1>1, <1>3 DEF Skills!CreateSkillRevision
<1>5. sess[s].id \in Proposals /\ revs' = [revs EXCEPT ![promo[sess[s].id].target] = sess[s].id]
  BY <1>2, <1>3, <1>4, PromoteFacts
<1>6. v = promo[sess[s].id].target
  BY <1>1, <1>5
<1> QED
  BY <1>1, <1>2, <1>3, <1>4, <1>5, <1>6

\* The pointer goes back only where ck_skill_active_pointer_authority lets it.
LEMMA PointerGoesBack ==
  ASSUME PromotionBounds, PromotionInv, [Skills!Next]_(Skills!vars), skill'.active # Skills!None,
         skill'.active < skill.active
  PROVE  \E r \in Rollbacks : /\ rb[r].expected = skill.active /\ rb[r].target = skill'.active
                              /\ rb[r].approval \in {"approved", "consumed"}
<1>0. skill.active \in Nat /\ skill' # skill
  BY SMT DEF PromotionInv, Skills!TypeOK, Skills!SkillRow, PromotionBounds
<1>1. PICK s \in Sessions : Skills!Writes(s)
  <2>1. ~UNCHANGED Skills!vars /\ ~Skills!Environment
    BY <1>0 DEF Skills!vars, Skills!tables, Skills!Environment, Skills!ReadyForReview,
       Skills!ResolveApproval, Skills!ResolveRollbackApproval
  <2>2. \A s \in Sessions : ~Skills!Reads(s)
    BY <1>0, SMT DEF Skills!Reads, Skills!LoadRevise, Skills!LoadActivate, Skills!LoadRequestRollback,
       Skills!LoadLifecycle, Skills!LoadCancelProposal,
                Skills!LoadRequestPromotion, Skills!LoadPromote, Skills!LoadClosePromotion,
                  Skills!LoadRollback, Skills!LoadCloseRollback,
                Skills!Load, Skills!LoadSkill, Skills!LoadWith, Skills!tables
  <2> QED
    BY <2>1, <2>2 DEF Skills!Next
<1>2. ~Skills!Conflict(s)
  BY <1>0 DEF Skills!Conflict, Skills!tables
<1>3. ASSUME Skills!PointerAllowed(skill.active, skill'.active) PROVE \E r \in Rollbacks :
        /\ rb[r].expected = skill.active /\ rb[r].target = skill'.active
        /\ rb[r].approval \in {"approved", "consumed"}
  <2>1. skill'.active # skill.active
    BY <1>0, SMT
  <2> QED
    BY <1>3, <2>1 DEF Skills!PointerAllowed
<1>4. ~Skills!ExecuteSkillPromotion(s)
  <2> SUFFICES ASSUME Skills!ExecuteSkillPromotion(s) PROVE FALSE
    OBVIOUS
  <2> DEFINE p == sess[s].id
             v == promo[p].target
  <2>1. /\ p \in Proposals /\ Skills!GeneratedAllowed(p, v) /\ v \in Skills!Versions /\ revs[v] = "none"
        /\ promo[p].expected = props[p].base /\ props[p].base \in Skills!Versions
             /\ revs[props[p].base] # "none"
        /\ skill' = Skills!Activated(sess[s].row, v) /\ sess[s].row \in Skills!SkillRow
    BY <1>2, PromoteFacts DEF PromotionInv, Skills!TypeOK
  <2> HIDE DEF p, v
  <2>2. skill.active = props[p].base
    BY <2>1 DEF Skills!GeneratedAllowed
  <2>3. skill'.active = v
    BY <2>1 DEF Skills!Activated, Skills!SkillRow
  <2>4. skill.active < v
    BY <2>1, <2>2, NewIsLater DEF PromotionInv
  <2> QED
    BY <1>0, <2>1, <2>3, <2>4, SMT DEF Skills!Versions, PromotionBounds
<1>5. ASSUME NEW row, Skills!SaveSkill(s, row) PROVE Skills!PointerAllowed(skill.active, skill'.active)
  BY <1>2, <1>5 DEF Skills!SaveSkill
<1>6. ASSUME Skills!ExecuteSkillRollback(s) PROVE Skills!PointerAllowed(skill.active, skill'.active)
  <2>1. sess[s].row \in Skills!SkillRow
    BY DEF PromotionInv, Skills!TypeOK
  <2>2. /\ Skills!PointerAllowed(skill.active, rb[sess[s].id].target)
        /\ skill' = Skills!Activated(sess[s].row, rb[sess[s].id].target)
    BY <1>2, <1>6 DEF Skills!ExecuteSkillRollback
  <2>3. skill'.active = rb[sess[s].id].target
    BY <2>1, <2>2 DEF Skills!Activated, Skills!SkillRow
  <2> QED
    BY <2>2, <2>3
<1> QED
  BY <1>0, <1>1, <1>2, <1>3, <1>4, <1>5, <1>6
     DEF Skills!Writes, Skills!CreateSkillRevision, Skills!ActivateSkillRevision, Skills!DisableSkill,
         Skills!ArchiveSkill, Skills!CancelProposal,
         Skills!RequestSkillPromotion, Skills!StalePromotion, Skills!ClosePromotion,
           Skills!RequestSkillRollback, Skills!StaleRollback, Skills!CloseRollback

\* The active revision is replaced by a generated one only in the transaction that
\* consumes the approval of a review against it, and by an older one only along a
\* rollback approved for the pair (ck_generated_revision_canonical_approval,
\* ck_skill_active_pointer_authority), however many commands overlap.
THEOREM PointerIsGuarded == ASSUME PromotionBounds PROVE Skills!Spec => Skills!PointerMovesAreApproved
<1>1. ASSUME PromotionInv, [Skills!Next]_(Skills!vars), NEW p \in Proposals, NEW v \in Skills!Versions,
             revs[v] = "none", revs'[v] = p
      PROVE  /\ skill.active = props[p].base /\ props[p].eligible
             /\ skill'.active = v
             /\ promo[p].approval = "approved" /\ promo'[p].approval = "consumed"
  <2>1. PICK s \in Sessions : Skills!ExecuteSkillPromotion(s) /\ ~Skills!Conflict(s) /\ p = sess[s].id
          /\ v = promo[p].target
    BY <1>1, GeneratedBy
  <2>2. /\ Skills!GeneratedAllowed(p, v) /\ promo[p].expected = props[p].base
        /\ Skills!Close(p, "promoted", "promoted", "consumed") /\ skill' = Skills!Activated(sess[s].row, v)
    BY <1>1, <2>1, PromoteFacts
  <2>3. sess[s].row \in Skills!SkillRow /\ promo \in [Proposals -> Skills!PromotionRow]
    BY <1>1 DEF PromotionInv, Skills!TypeOK
  <2>4. skill'.active = v /\ promo'[p].approval = "consumed"
    BY <2>2, <2>3 DEF Skills!Activated, Skills!SkillRow, Skills!Close, Skills!PromotionRow
  <2> QED
    BY <2>2, <2>4 DEF Skills!GeneratedAllowed
<1>2. PromotionInv /\ [Skills!Next]_(Skills!vars) =>
        [\A p \in Proposals, v \in Skills!Versions :
           revs[v] = "none" /\ revs'[v] = p =>
             /\ skill.active = props[p].base /\ props[p].eligible
             /\ skill'.active = v
             /\ promo[p].approval = "approved" /\ promo'[p].approval = "consumed"]_(Skills!vars)
  BY <1>1
<1>3. PromotionInv /\ [Skills!Next]_(Skills!vars) =>
        [skill'.active # Skills!None /\ skill'.active < skill.active =>
           \E r \in Rollbacks :
             /\ rb[r].expected = skill.active /\ rb[r].target = skill'.active
             /\ rb[r].approval \in {"approved", "consumed"}]_(Skills!vars)
  BY PointerGoesBack
<1> QED
  BY <1>2, <1>3, PromotionInvariant, PTL
     DEF Skills!Spec, Skills!PointerMovesAreApproved, Skills!PromotesWhatWasReviewed,
         Skills!DowngradesAreApproved
===============================================================================
