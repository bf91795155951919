---------------------------- MODULE BridgeProofs ----------------------------
(***************************************************************************)
(* EnsureBridge and CheckBridge for every link that may be in the way and  *)
(* any number of changes by others and failures of requests.               *)
(***************************************************************************)
EXTENDS Bridge, TLAPS

Ensuring == {"find", "add", "reload", "topology", "addresses", "add-address", "set-up"}
Looking == {"topology", "addresses", "add-address", "set-up"}
Verifying == {"verify-link", "verify-ports", "verify-addresses"}

(* What the phase of a call c says of its fields.                          *)
Shape(c) ==
  /\ c.pc \in Ensuring => c.op = "ensure"
  /\ (c.pc = "idle") <=> (c.op = "none")
  /\ c.pc \in {"find", "add"} \/ c.op # "ensure" => c.created = FALSE
  /\ c.pc \in {"find", "add", "reload"} => c.snap = NoLink
  /\ c.created = TRUE => c.made \in Id

(* A link that a call has made and lost does not come back.                *)
Own(b, c) ==
  c.created = TRUE /\ c.snap # NoLink /\ b # NoLink /\ c.snap.id # c.made => b.id # c.made

(* A call that has failed has removed what it made, or was unable to.      *)
Removed(b, c, h) ==
  c.pc = "failed" /\ c.created = TRUE /\ b # NoLink /\ b.id = c.made => h.stuck = TRUE

Ready(l) == l # NoLink /\ RightKind(l) /\ Topology(l, l.ports)

(* The final check, as long as nobody changes anything meanwhile.          *)
Verified(b, c, h) ==
  h.late = FALSE =>
    /\ c.pc \in {"verify-ports", "verify-addresses"} => b # NoLink /\ b = c.seen /\ RightKind(b)
    /\ c.pc = "verify-addresses" => Ready(b) /\ b.up = TRUE
    /\ c.pc = "done" => Complete(b)

(* EnsureBridge, as long as nobody changes anything.                       *)
Undisturbed(b, c, h) ==
  /\ c.created = TRUE => h.start = NoLink
  /\ c.pc = "find" => b = h.start
  /\ c.pc = "add" => h.start = NoLink /\ b = NoLink
  /\ c.pc = "reload" => h.start = NoLink /\ Ready(b) /\ Absent(b.addrs)
  /\ c.pc \in Looking =>
       /\ c.snap # NoLink
       /\ \/ h.start = NoLink /\ Ready(c.snap) /\ Absent(c.snap.addrs)
          \/ h.start = c.snap /\ c.created = FALSE
  /\ c.pc \in Looking \ {"set-up"} => b = c.snap
  /\ c.pc \in Looking \ {"topology"} => Ready(c.snap)
  /\ c.pc = "add-address" => Absent(c.snap.addrs)
  /\ c.pc = "set-up" => /\ ~Conflict(h.start)
                        /\ Ready(b) /\ Present(b.addrs)
                        /\ b.up = c.snap.up /\ b.id = c.snap.id
  /\ c.pc \in Verifying \cup {"done"} => ~Conflict(h.start) /\ Complete(b)
  /\ c.pc \in {"verify-ports", "verify-addresses"} => c.seen = b
  /\ c.pc \in {"undo", "failed"} =>
       /\ Conflict(h.start) => b = h.start
       /\ h.faulted = FALSE => Conflict(h.start)

(* CheckBridge by itself, as long as nobody changes anything.              *)
UndisturbedCheck(b, c, h) ==
  /\ b = h.start
  /\ c.pc \in {"verify-ports", "verify-addresses"} => c.seen = b
  /\ c.pc = "verify-addresses" => Ready(b) /\ b.up = TRUE
  /\ c.pc \in {"undo", "failed"} /\ h.faulted = FALSE => ~Complete(h.start)
  /\ c.pc = "verify-ports" => b # NoLink /\ RightKind(b)

Story(b, c, h) ==
  h.disturbed = FALSE =>
    /\ c.op = "ensure" => Undisturbed(b, c, h)
    /\ c.op = "check" => UndisturbedCheck(b, c, h)

Typed(b, c, h) ==
  /\ b \in Link \cup {NoLink} /\ c \in CallState /\ h \in History
  /\ c.pc \in Looking => c.snap # NoLink
  /\ c.pc \in {"verify-ports", "verify-addresses"} => c.seen # NoLink

Good(b, c, h) ==
  /\ Typed(b, c, h) /\ Shape(c) /\ Own(b, c) /\ Removed(b, c, h)
  /\ Verified(b, c, h) /\ Story(b, c, h)

Inv == Good(br, call, hist) /\ budget \in 0..MaxFaults
-----------------------------------------------------------------------------
(* The call goes on at pc.                                                 *)
LEMMA GotoFields ==
  ASSUME NEW c \in CallState, NEW pc \in Steps, NEW d, d = [c EXCEPT !.pc = pc]
  PROVE  /\ d \in CallState /\ d.pc = pc /\ d.op = c.op /\ d.snap = c.snap
         /\ d.seen = c.seen /\ d.created = c.created /\ d.made = c.made
  BY DEF CallState

(* A call that has met a conflict has changed nothing.                     *)
LEMMA StillThere ==
  ASSUME NEW b, NEW c, NEW h, Typed(b, c, h), Shape(c), Story(b, c, h), h.disturbed = FALSE,
         Conflict(h.start), c.pc # "idle"
  PROVE  b = h.start /\ c.created = FALSE
<1>1. h.start # NoLink  BY DEF Conflict
<1>2. c.op = "ensure" \/ c.op = "check"  BY DEF Typed, CallState, Shape
<1>3. CASE c.op = "check"  BY <1>3 DEF Story, UndisturbedCheck, Shape
<1>4. CASE c.op = "ensure"
  <2>1. Undisturbed(b, c, h)  BY <1>4 DEF Story
  <2>2. c.created = FALSE  BY <1>1, <2>1 DEF Undisturbed, Typed, CallState
  <2>3. c.pc \in Steps \ {"idle"}  BY DEF Typed, CallState
  <2>4. c.pc \notin {"add", "reload", "set-up", "done"} \cup Verifying
    BY <1>1, <2>1 DEF Undisturbed
  <2>5. c.pc # "add-address"
    <3>1. SUFFICES ASSUME c.pc = "add-address" PROVE FALSE  OBVIOUS
    <3>2. h.start = c.snap /\ Ready(c.snap) /\ Absent(c.snap.addrs)
      BY <1>1, <2>1, <3>1 DEF Undisturbed, Looking
    <3>3. QED  BY <3>2 DEF Ready, Conflict
  <2>6. c.pc \in {"topology", "addresses"} => b = h.start
    BY <1>1, <2>1 DEF Undisturbed, Looking
  <2>7. c.pc \in {"find", "undo", "failed"} => b = h.start  BY <2>1 DEF Undisturbed
  <2>8. QED  BY <2>2, <2>3, <2>4, <2>5, <2>6, <2>7 DEF Steps, Verifying
<1>5. QED  BY <1>2, <1>3, <1>4

(* A request fails by itself.                                              *)
LEMMA FailingStep ==
  ASSUME Inv, NEW pc \in {"undo", "failed"}, Failing(pc), UNCHANGED br, ~At("idle"),
         pc = "failed" => call.created = FALSE \/ At("undo")
  PROVE  Inv'
<1>1. PICK d : d = [call EXCEPT !.pc = pc]  OBVIOUS
<1>2. PICK h : h = [hist EXCEPT !.faulted = TRUE, !.stuck = At("undo")]  OBVIOUS
<1>3. call' = d /\ hist' = h /\ br' = br  BY <1>1, <1>2 DEF Failing, Goto
<1>4. call \in CallState /\ hist \in History /\ br \in Link \cup {NoLink} /\ Shape(call)
      /\ call.pc # "idle"
  BY DEF Inv, Good, Typed, At
<1>5. /\ d \in CallState /\ d.pc = pc /\ d.op = call.op /\ d.snap = call.snap
      /\ d.seen = call.seen /\ d.created = call.created /\ d.made = call.made
  BY <1>1, <1>4, GotoFields DEF Steps
<1>6. /\ h \in History /\ h.start = hist.start /\ h.disturbed = hist.disturbed
      /\ h.late = hist.late /\ h.faulted = TRUE /\ (At("undo") => h.stuck = TRUE)
  BY <1>2, <1>4 DEF History, At
<1>7. Typed(br, d, h)  BY <1>4, <1>5, <1>6 DEF Typed, Looking
<1>8. Shape(d)  BY <1>4, <1>5 DEF Shape, Ensuring
<1>9. Own(br, d)  BY <1>5 DEF Inv, Good, Own
<1>10. Removed(br, d, h)  BY <1>5, <1>6 DEF Removed
<1>11. Verified(br, d, h)  BY <1>5 DEF Verified
<1>12. Story(br, d, h)
  <2>1. SUFFICES ASSUME hist.disturbed = FALSE
                 PROVE  /\ call.op = "ensure" => Undisturbed(br, d, h)
                        /\ call.op = "check" => UndisturbedCheck(br, d, h)
    BY <1>5, <1>6 DEF Story
  <2>2. Conflict(h.start) => br = h.start
    BY <1>4, <1>6, <2>1, StillThere DEF Inv, Good
  <2>3. ASSUME call.op = "ensure" PROVE Undisturbed(br, d, h)
    <3>1. Undisturbed(br, call, hist)  BY <2>1, <2>3 DEF Inv, Good, Story
    <3>2. d.created = TRUE => h.start = NoLink  BY <1>5, <1>6, <3>1 DEF Undisturbed
    <3>3. QED  BY <1>5, <1>6, <2>2, <3>2 DEF Undisturbed, Looking, Verifying
  <2>4. ASSUME call.op = "check" PROVE UndisturbedCheck(br, d, h)
    <3>1. UndisturbedCheck(br, call, hist)  BY <2>1, <2>4 DEF Inv, Good, Story
    <3>2. QED  BY <1>5, <1>6, <3>1 DEF UndisturbedCheck
  <2>5. QED  BY <2>3, <2>4
<1>13. budget' \in 0..MaxFaults
  BY BridgeAssumption DEF Failing, Inv
<1>14. QED  BY <1>3, <1>7, <1>8, <1>9, <1>10, <1>11, <1>12, <1>13 DEF Inv, Good

(* A step that changes nothing but the call.                               *)
LEMMA GoesOn ==
  ASSUME Inv, NEW d, call' = d, UNCHANGED br, NoFault, d.pc # "failed",
         Typed(br, d, hist), Shape(d), Own(br, d), Verified(br, d, hist), Story(br, d, hist)
  PROVE  Inv'
<1>1. br' = br /\ hist' = hist /\ budget' = budget  BY DEF NoFault
<1>2. Removed(br, d, hist)  BY DEF Removed
<1>3. QED  BY <1>1, <1>2 DEF Inv, Good

(* What is known of a running call.                                        *)
LEMMA Known ==
  ASSUME Inv
  PROVE  /\ call \in CallState /\ hist \in History /\ br \in Link \cup {NoLink}
         /\ call.pc \in Steps /\ Typed(br, call, hist) /\ Shape(call) /\ Own(br, call)
         /\ Verified(br, call, hist) /\ Story(br, call, hist) /\ NoLink \notin Link
         /\ call.created \in BOOLEAN /\ call.snap \in Link \cup {NoLink}
         /\ call.seen \in Link \cup {NoLink}
         /\ hist.disturbed \in BOOLEAN /\ hist.faulted \in BOOLEAN /\ hist.late \in BOOLEAN
         /\ hist.start \in Link \cup {NoLink}
  BY BridgeAssumption DEF Inv, Good, Typed, CallState, History

(* A call that finds what it cannot accept gives up.                       *)
LEMMA GivesUp ==
  ASSUME Inv, Goto("undo"), UNCHANGED br, NoFault,
         call.pc \in (Ensuring \ {"find", "add"}) \cup Verifying,
         hist.disturbed = FALSE =>
           /\ call.op = "ensure" => Conflict(hist.start)
           /\ call.op = "check" => ~Complete(hist.start)
  PROVE  Inv'
<1>1. PICK d : d = [call EXCEPT !.pc = "undo"]  OBVIOUS
<1>2. /\ d \in CallState /\ d.pc = "undo" /\ d.op = call.op /\ d.snap = call.snap
      /\ d.seen = call.seen /\ d.created = call.created /\ d.made = call.made
  BY <1>1, Known, GotoFields DEF Steps
<1>3. call.pc # "idle"  BY DEF Ensuring, Verifying
<1>4. Typed(br, d, hist) /\ Shape(d) /\ Own(br, d) /\ Verified(br, d, hist)
  BY <1>2, <1>3, Known DEF Typed, Shape, Own, Verified, Looking, Ensuring
<1>5. Story(br, d, hist)
  <2>1. SUFFICES ASSUME hist.disturbed = FALSE
                 PROVE  /\ call.op = "ensure" => Undisturbed(br, d, hist)
                        /\ call.op = "check" => UndisturbedCheck(br, d, hist)
    BY <1>2 DEF Story
  <2>2. Conflict(hist.start) => br = hist.start
    BY <1>3, <2>1, Known, StillThere
  <2>3. ASSUME call.op = "ensure" PROVE Undisturbed(br, d, hist)
    <3>1. Undisturbed(br, call, hist)  BY <2>1, <2>3, Known DEF Story
    <3>2. d.created = TRUE => hist.start = NoLink  BY <1>2, <3>1 DEF Undisturbed
    <3>3. Conflict(hist.start)  BY <2>1, <2>3
    <3>4. QED  BY <1>2, <2>2, <3>2, <3>3 DEF Undisturbed, Looking, Verifying
  <2>4. ASSUME call.op = "check" PROVE UndisturbedCheck(br, d, hist)
    <3>1. UndisturbedCheck(br, call, hist)  BY <2>1, <2>4, Known DEF Story
    <3>2. ~Complete(hist.start)  BY <2>1, <2>4
    <3>3. QED  BY <1>2, <3>1, <3>2 DEF UndisturbedCheck
  <2>5. QED  BY <2>3, <2>4
<1>6. call' = d /\ d.pc # "failed"  BY <1>1, <1>2 DEF Goto
<1>7. QED  BY <1>4, <1>5, <1>6, GoesOn

LEMMA FindStep ==
  ASSUME Inv, Find
  PROVE  Inv'
<1>1. call.pc = "find" /\ ~At("idle")  BY DEF Find, At
<1>2. call.op = "ensure" /\ call.created = FALSE  BY <1>1, Known DEF Shape, Ensuring
<1>3. CASE /\ NoFault
           /\ call' = [call EXCEPT !.snap = br, !.pc = IF br = NoLink THEN "add" ELSE "topology"]
  <2>1. PICK pc \in {"add", "topology"} : pc = IF br = NoLink THEN "add" ELSE "topology"
    OBVIOUS
  <2>2. PICK d : d = [call EXCEPT !.snap = br, !.pc = pc]  OBVIOUS
  <2>3. /\ d \in CallState /\ d.pc = pc /\ d.op = "ensure" /\ d.snap = br
        /\ d.seen = call.seen /\ d.created = FALSE /\ d.made = call.made
    BY <1>2, <2>2, Known DEF CallState, Steps
  <2>4. Typed(br, d, hist) /\ Shape(d) /\ Own(br, d) /\ Verified(br, d, hist)
    BY <2>1, <2>3, Known DEF Typed, Shape, Own, Verified, Looking, Ensuring
  <2>5. Story(br, d, hist)
    <3>1. SUFFICES ASSUME hist.disturbed = FALSE PROVE Undisturbed(br, d, hist)
      BY <2>3 DEF Story
    <3>2. br = hist.start  BY <1>1, <1>2, <3>1, Known DEF Story, Undisturbed
    <3>3. QED  BY <2>1, <2>3, <3>2 DEF Undisturbed, Looking, Verifying
  <2>6. call' = d /\ d.pc # "failed" /\ UNCHANGED br  BY <1>3, <2>1, <2>2, <2>3 DEF Find
  <2>7. QED  BY <1>3, <2>4, <2>5, <2>6, GoesOn
<1>4. CASE Failing("failed")
  BY <1>1, <1>2, <1>4, FailingStep DEF Find
<1>5. QED  BY <1>3, <1>4 DEF Find

LEMMA NewBridgeReady ==
  ASSUME NEW i \in Id, NEW b, b = NewBridge(i)
  PROVE  b \in Link /\ b # NoLink /\ b.id = i /\ Ready(b) /\ Absent(b.addrs)
<1>1. b \in Link  BY BridgeAssumption DEF NewBridge, Link
<1>2. b # NoLink  BY <1>1, BridgeAssumption
<1>3. b.id = i /\ b.kind = "bridge" /\ b.mtu = SpecMtu /\ b.master = FALSE
      /\ b.addrs = {} /\ b.ports = {}
  BY DEF NewBridge
<1>4. QED  BY <1>1, <1>2, <1>3 DEF Ready, RightKind, Topology, Absent

LEMMA AddStep ==
  ASSUME Inv, Add
  PROVE  Inv'
<1>1. call.pc = "add" /\ ~At("idle")  BY DEF Add, At
<1>2. /\ call.op = "ensure" /\ call.created = FALSE /\ call.snap = NoLink
      /\ hist.disturbed = FALSE => hist.start = NoLink /\ br = NoLink
  BY <1>1, Known DEF Shape, Ensuring, Story, Undisturbed
<1>3. CASE /\ br = NoLink /\ NoFault
           /\ \E i \in Id : /\ br' = NewBridge(i)
                            /\ call' = [call EXCEPT !.created = TRUE, !.made = i, !.pc = "reload"]
  <2>1. PICK i \in Id : /\ br' = NewBridge(i)
                        /\ call' = [call EXCEPT !.created = TRUE, !.made = i, !.pc = "reload"]
    BY <1>3
  <2>2. PICK b : b = NewBridge(i)  OBVIOUS
  <2>3. b \in Link /\ b # NoLink /\ b.id = i /\ Ready(b) /\ Absent(b.addrs)
    BY <2>2, NewBridgeReady
  <2>4. PICK d : d = [call EXCEPT !.created = TRUE, !.made = i, !.pc = "reload"]  OBVIOUS
  <2>5. /\ d \in CallState /\ d.pc = "reload" /\ d.op = "ensure" /\ d.snap = NoLink
        /\ d.seen = call.seen /\ d.created = TRUE /\ d.made = i
    BY <1>2, <2>4, Known DEF CallState, Steps
  <2>6. Typed(b, d, hist) /\ Shape(d) /\ Own(b, d) /\ Removed(b, d, hist)
        /\ Verified(b, d, hist)
    BY <2>3, <2>5, Known DEF Typed, Shape, Own, Removed, Verified, Looking, Ensuring
  <2>7. Story(b, d, hist)
    <3>1. SUFFICES ASSUME hist.disturbed = FALSE PROVE Undisturbed(b, d, hist)
      BY <2>5 DEF Story
    <3>2. QED  BY <1>2, <2>3, <2>5, <3>1 DEF Undisturbed, Looking, Verifying
  <2>8. hist' = hist /\ budget' = budget /\ br' = b /\ call' = d
    BY <1>3, <2>1, <2>2, <2>4 DEF NoFault
  <2>9. QED  BY <2>6, <2>7, <2>8 DEF Inv, Good
<1>4. CASE br # NoLink /\ NoFault /\ Goto("reload") /\ UNCHANGED br
  <2>1. PICK d : d = [call EXCEPT !.pc = "reload"]  OBVIOUS
  <2>2. /\ d \in CallState /\ d.pc = "reload" /\ d.op = "ensure" /\ d.snap = NoLink
        /\ d.seen = call.seen /\ d.created = FALSE /\ d.made = call.made
    BY <1>2, <2>1, Known, GotoFields DEF Steps
  <2>3. Typed(br, d, hist) /\ Shape(d) /\ Own(br, d) /\ Verified(br, d, hist)
    BY <2>2, Known DEF Typed, Shape, Own, Verified, Looking, Ensuring
  <2>4. Story(br, d, hist)  BY <1>2, <1>4, Known DEF Story
  <2>5. call' = d /\ d.pc # "failed"  BY <1>4, <2>1, <2>2 DEF Goto
  <2>6. QED  BY <1>4, <2>3, <2>4, <2>5, GoesOn
<1>5. CASE Failing("failed") /\ UNCHANGED br
  BY <1>1, <1>2, <1>5, FailingStep
<1>6. QED  BY <1>3, <1>4, <1>5 DEF Add

LEMMA ReloadStep ==
  ASSUME Inv, Reload
  PROVE  Inv'
<1>1. call.pc = "reload" /\ ~At("idle")  BY DEF Reload, At
<1>2. /\ call.op = "ensure"
      /\ hist.disturbed = FALSE => /\ hist.start = NoLink /\ Ready(br) /\ Absent(br.addrs)
                                   /\ br # NoLink
  BY <1>1, Known DEF Shape, Ensuring, Story, Undisturbed, Ready
<1>3. CASE /\ NoFault
           /\ call' = [call EXCEPT !.snap = br, !.pc = IF br = NoLink THEN "undo" ELSE "topology"]
  <2>1. PICK pc \in {"undo", "topology"} : pc = IF br = NoLink THEN "undo" ELSE "topology"
    OBVIOUS
  <2>2. PICK d : d = [call EXCEPT !.snap = br, !.pc = pc]  OBVIOUS
  <2>3. /\ d \in CallState /\ d.pc = pc /\ d.op = "ensure" /\ d.snap = br
        /\ d.seen = call.seen /\ d.created = call.created /\ d.made = call.made
    BY <1>2, <2>2, Known DEF CallState, Steps
  <2>4. Typed(br, d, hist) /\ Shape(d) /\ Own(br, d) /\ Verified(br, d, hist)
    BY <2>1, <2>3, Known DEF Typed, Shape, Own, Verified, Looking, Ensuring
  <2>5. Story(br, d, hist)
    <3>1. SUFFICES ASSUME hist.disturbed = FALSE PROVE Undisturbed(br, d, hist)
      BY <2>3 DEF Story
    <3>2. QED  BY <1>2, <2>1, <2>3, <3>1 DEF Undisturbed, Looking, Verifying
  <2>6. call' = d /\ d.pc # "failed" /\ UNCHANGED br  BY <1>3, <2>1, <2>2, <2>3 DEF Reload
  <2>7. QED  BY <1>3, <2>4, <2>5, <2>6, GoesOn
<1>4. CASE Failing("undo")  BY <1>1, <1>4, FailingStep DEF Reload
<1>5. QED  BY <1>3, <1>4 DEF Reload

(* The steps after the look-up work on snap.                               *)
LEMMA OnSnap ==
  ASSUME Inv, call.pc \in Looking
  PROVE  /\ call.op = "ensure" /\ call.snap \in Link /\ call.snap # NoLink /\ ~At("idle")
         /\ hist.disturbed = FALSE => Undisturbed(br, call, hist)
         /\ hist.disturbed = FALSE /\ call.pc # "set-up" =>
              /\ br = call.snap /\ PortsOf(call.snap) = call.snap.ports
              /\ AddrsOf(call.snap) = call.snap.addrs /\ Alive(call.snap)
<1>1. call.snap \in Link /\ call.snap # NoLink /\ ~At("idle")
  BY Known DEF Typed, Looking, At
<1>2. call.op = "ensure"  BY Known DEF Shape, Ensuring, Looking
<1>3. hist.disturbed = FALSE => Undisturbed(br, call, hist)  BY <1>2, Known DEF Story
<1>4. hist.disturbed = FALSE /\ call.pc # "set-up" => br = call.snap
  BY <1>3 DEF Undisturbed
<1>5. br = call.snap => /\ PortsOf(call.snap) = call.snap.ports /\ Alive(call.snap)
                        /\ AddrsOf(call.snap) = call.snap.addrs
  BY <1>1 DEF PortsOf, AddrsOf, Alive
<1>6. QED  BY <1>1, <1>2, <1>3, <1>4, <1>5

(* A step of EnsureBridge that goes on with the same link.                 *)
LEMMA Advances ==
  ASSUME Inv, call.pc \in Looking, NEW pc \in {"addresses", "add-address", "set-up"},
         Goto(pc), UNCHANGED br, NoFault,
         hist.disturbed = FALSE =>
           /\ Ready(call.snap) /\ br = call.snap
           /\ pc = "add-address" => Absent(call.snap.addrs)
           /\ pc = "set-up" => ~Conflict(hist.start) /\ Present(call.snap.addrs)
  PROVE  Inv'
<1>1. PICK d : d = [call EXCEPT !.pc = pc]  OBVIOUS
<1>2. /\ d \in CallState /\ d.pc = pc /\ d.op = call.op /\ d.snap = call.snap
      /\ d.seen = call.seen /\ d.created = call.created /\ d.made = call.made
  BY <1>1, Known, GotoFields DEF Steps
<1>3. call.op = "ensure" /\ call.snap # NoLink
      /\ (hist.disturbed = FALSE => Undisturbed(br, call, hist))
  BY OnSnap
<1>4. Typed(br, d, hist) /\ Shape(d) /\ Own(br, d) /\ Verified(br, d, hist)
  BY <1>2, <1>3, Known DEF Typed, Shape, Own, Verified, Looking, Ensuring
<1>5. Story(br, d, hist)
  <2>1. SUFFICES ASSUME hist.disturbed = FALSE PROVE Undisturbed(br, d, hist)
    BY <1>2, <1>3 DEF Story
  <2>2. /\ d.created = TRUE => hist.start = NoLink
        /\ \/ hist.start = NoLink /\ Ready(d.snap) /\ Absent(d.snap.addrs)
           \/ hist.start = d.snap /\ d.created = FALSE
    BY <1>2, <1>3, <2>1 DEF Undisturbed
  <2>3. QED  BY <1>2, <1>3, <2>1, <2>2 DEF Undisturbed, Looking, Verifying
<1>6. call' = d /\ d.pc # "failed"  BY <1>1, <1>2 DEF Goto
<1>7. QED  BY <1>4, <1>5, <1>6, GoesOn

LEMMA CheckTopologyStep ==
  ASSUME Inv, CheckTopology
  PROVE  Inv'
<1> DEFINE ok == RightKind(call.snap) /\ Topology(call.snap, PortsOf(call.snap))
<1>1. call.pc = "topology" /\ call.pc \in Looking  BY DEF CheckTopology, At, Looking
<1>2. UNCHANGED br /\ ((NoFault /\ Goto(IF ok THEN "addresses" ELSE "undo")) \/ Failing("undo"))
  BY DEF CheckTopology, Reads
<1>3. call.op = "ensure" /\ call.snap # NoLink /\ ~At("idle")
      /\ (hist.disturbed = FALSE => /\ Undisturbed(br, call, hist) /\ br = call.snap
                                    /\ PortsOf(call.snap) = call.snap.ports)
  BY <1>1, OnSnap
<1>4. CASE NoFault /\ Goto("addresses") /\ ok
  <2>1. hist.disturbed = FALSE => Ready(call.snap)  BY <1>3, <1>4 DEF Ready
  <2>2. QED  BY <1>1, <1>2, <1>3, <1>4, <2>1, Advances
<1>5. CASE NoFault /\ Goto("undo") /\ ~ok
  <2>1. hist.disturbed = FALSE => Conflict(hist.start)
    BY <1>1, <1>3, <1>5 DEF Undisturbed, Ready, Conflict
  <2>2. QED  BY <1>1, <1>2, <1>3, <1>5, <2>1, GivesUp DEF Ensuring
<1>6. CASE Failing("undo")  BY <1>2, <1>3, <1>6, FailingStep
<1>7. QED  BY <1>2, <1>4, <1>5, <1>6

LEMMA ListAddressesStep ==
  ASSUME Inv, ListAddresses
  PROVE  Inv'
<1> DEFINE addrs == AddrsOf(call.snap)
<1>1. call.pc = "addresses" /\ call.pc \in Looking  BY DEF ListAddresses, At, Looking
<1>2. /\ UNCHANGED br
      /\ \/ NoFault /\ Goto(IF Absent(addrs) \/ Present(addrs)
                            THEN IF Absent(addrs) THEN "add-address" ELSE "set-up"
                            ELSE "undo")
         \/ Failing("undo")
  BY DEF ListAddresses, Reads
<1>3. call.op = "ensure" /\ call.snap # NoLink /\ ~At("idle")
      /\ (hist.disturbed = FALSE => /\ Undisturbed(br, call, hist) /\ br = call.snap
                                    /\ addrs = call.snap.addrs)
  BY <1>1, OnSnap
<1>4. hist.disturbed = FALSE => Ready(call.snap)
  BY <1>1, <1>3 DEF Undisturbed
<1>5. CASE NoFault /\ Goto("add-address") /\ Absent(addrs)
  BY <1>1, <1>2, <1>3, <1>4, <1>5, Advances
<1>6. CASE NoFault /\ Goto("set-up") /\ Present(addrs) /\ ~Absent(addrs)
  <2>1. hist.disturbed = FALSE => ~Conflict(hist.start)
    BY <1>1, <1>3, <1>4, <1>6 DEF Undisturbed, Conflict, Ready
  <2>2. QED  BY <1>1, <1>2, <1>3, <1>4, <1>6, <2>1, Advances
<1>7. CASE NoFault /\ Goto("undo") /\ ~Absent(addrs) /\ ~Present(addrs)
  <2>1. hist.disturbed = FALSE => Conflict(hist.start)
    BY <1>1, <1>3, <1>7 DEF Undisturbed, Conflict
  <2>2. QED  BY <1>1, <1>2, <1>3, <1>7, <2>1, GivesUp DEF Ensuring
<1>8. CASE Failing("undo")  BY <1>2, <1>3, <1>8, FailingStep
<1>9. QED  BY <1>2, <1>5, <1>6, <1>7, <1>8

LEMMA AddAddressStep ==
  ASSUME Inv, AddAddress
  PROVE  Inv'
<1>1. call.pc = "add-address" /\ call.pc \in Looking  BY DEF AddAddress, At, Looking
<1>2. call.op = "ensure" /\ call.snap # NoLink /\ call.snap \in Link /\ ~At("idle")
      /\ (hist.disturbed = FALSE => /\ Undisturbed(br, call, hist) /\ br = call.snap
                                    /\ Alive(call.snap))
  BY <1>1, OnSnap
<1>3. CASE /\ Alive(call.snap) /\ NoFault
           /\ br' = [br EXCEPT !.addrs = br.addrs \cup {Gateway}]
           /\ Goto("set-up")
  <2>1. br \in Link /\ br # NoLink /\ br.id = call.snap.id  BY <1>3, Known DEF Alive
  <2>2. PICK b : b = [br EXCEPT !.addrs = br.addrs \cup {Gateway}]  OBVIOUS
  <2>3. PICK as \in SUBSET Address : as = br.addrs \cup {Gateway}
    BY <2>1, BridgeAssumption DEF Link
  <2>4. /\ b \in Link /\ b.id = br.id /\ b.kind = br.kind /\ b.mtu = br.mtu
        /\ b.master = br.master /\ b.up = br.up /\ b.ports = br.ports /\ b.addrs = as
    BY <2>1, <2>2, <2>3 DEF Link
  <2>5. b # NoLink  BY <2>4, BridgeAssumption
  <2>6. PICK d : d = [call EXCEPT !.pc = "set-up"]  OBVIOUS
  <2>7. /\ d \in CallState /\ d.pc = "set-up" /\ d.op = "ensure" /\ d.snap = call.snap
        /\ d.seen = call.seen /\ d.created = call.created /\ d.made = call.made
    BY <1>2, <2>6, Known, GotoFields DEF Steps
  <2>8. Typed(b, d, hist) /\ Shape(d) /\ Own(b, d) /\ Removed(b, d, hist)
        /\ Verified(b, d, hist)
    BY <1>2, <2>1, <2>4, <2>5, <2>7, Known
    DEF Typed, Shape, Own, Removed, Verified, Looking, Ensuring
  <2>9. Story(b, d, hist)
    <3>1. SUFFICES ASSUME hist.disturbed = FALSE PROVE Undisturbed(b, d, hist)
      BY <2>7 DEF Story
    <3>2. /\ Ready(call.snap) /\ Absent(call.snap.addrs) /\ br = call.snap
          /\ Undisturbed(br, call, hist)
      BY <1>1, <1>2, <3>1 DEF Undisturbed
    <3>3. Ready(b) /\ Present(b.addrs) /\ b.up = d.snap.up /\ b.id = d.snap.id
      BY <2>3, <2>4, <2>5, <2>7, <3>2 DEF Ready, RightKind, Topology, Present, Absent
    <3>4. /\ d.created = TRUE => hist.start = NoLink
          /\ \/ hist.start = NoLink /\ Ready(d.snap) /\ Absent(d.snap.addrs)
             \/ hist.start = d.snap /\ d.created = FALSE
      BY <1>1, <2>7, <3>2 DEF Undisturbed
    <3>5. ~Conflict(hist.start)  BY <2>7, <3>2, <3>4 DEF Conflict, Ready
    <3>6. QED  BY <1>2, <2>7, <3>2, <3>3, <3>4, <3>5 DEF Undisturbed, Looking, Verifying
  <2>10. hist' = hist /\ budget' = budget /\ br' = b /\ call' = d
    BY <1>3, <2>2, <2>6 DEF NoFault, Goto
  <2>11. QED  BY <2>8, <2>9, <2>10 DEF Inv, Good
<1>4. CASE ~Alive(call.snap) /\ NoFault /\ Goto("undo") /\ UNCHANGED br
  BY <1>1, <1>2, <1>4, GivesUp, Known DEF Ensuring
<1>5. CASE Failing("undo") /\ UNCHANGED br  BY <1>2, <1>5, FailingStep
<1>6. QED  BY <1>3, <1>4, <1>5 DEF AddAddress

(* The final check begins with the link b.                                 *)
LEMMA FinalCheck ==
  ASSUME Inv, call.pc = "set-up", NEW b \in Link, br \in Link, br' = b, b.id = br.id,
         BeginCheck, UNCHANGED budget,
         hist.disturbed = FALSE => ~Conflict(hist.start) /\ Complete(b)
  PROVE  Inv'
<1>1. PICK d : d = [call EXCEPT !.pc = "verify-link"]  OBVIOUS
<1>2. /\ d \in CallState /\ d.pc = "verify-link" /\ d.op = call.op /\ d.snap = call.snap
      /\ d.seen = call.seen /\ d.created = call.created /\ d.made = call.made
  BY <1>1, Known, GotoFields DEF Steps
<1>3. PICK h : h = [hist EXCEPT !.late = FALSE]  OBVIOUS
<1>4. /\ h \in History /\ h.start = hist.start /\ h.disturbed = hist.disturbed
      /\ h.faulted = hist.faulted /\ h.stuck = hist.stuck
  BY <1>3, Known DEF History
<1>5. call.op = "ensure" /\ (hist.disturbed = FALSE => Undisturbed(br, call, hist))
  BY OnSnap DEF Looking
<1>6. Typed(b, d, h) /\ Shape(d) /\ Own(b, d) /\ Removed(b, d, h) /\ Verified(b, d, h)
  BY <1>2, <1>4, <1>5, Known DEF Typed, Shape, Own, Removed, Verified, Looking, Ensuring
<1>7. Story(b, d, h)
  <2>1. SUFFICES ASSUME hist.disturbed = FALSE PROVE Undisturbed(b, d, h)
    BY <1>2, <1>4, <1>5 DEF Story
  <2>2. d.created = TRUE => h.start = NoLink  BY <1>2, <1>4, <1>5, <2>1 DEF Undisturbed
  <2>3. QED  BY <1>2, <1>4, <2>1, <2>2 DEF Undisturbed, Looking, Verifying
<1>8. call' = d /\ hist' = h  BY <1>1, <1>3 DEF BeginCheck
<1>9. QED  BY <1>6, <1>7, <1>8 DEF Inv, Good

LEMMA SetUpStep ==
  ASSUME Inv, SetUp
  PROVE  Inv'
<1>1. call.pc = "set-up" /\ call.pc \in Looking  BY DEF SetUp, At, Looking
<1>2. call.op = "ensure" /\ call.snap # NoLink /\ call.snap \in Link /\ ~At("idle")
  BY <1>1, OnSnap
<1>3. hist.disturbed = FALSE =>
        /\ ~Conflict(hist.start) /\ Ready(br) /\ Present(br.addrs)
        /\ br.up = call.snap.up /\ br.id = call.snap.id /\ br # NoLink
  BY <1>1, OnSnap DEF Undisturbed, Ready
<1>4. CASE call.snap.up /\ BeginCheck /\ UNCHANGED <<br, budget>>
  <2>1. hist.disturbed = FALSE => Complete(br)  BY <1>3, <1>4 DEF Complete, Ready
  <2>2. CASE br \in Link  BY <1>1, <1>3, <1>4, <2>1, <2>2, FinalCheck
  <2>3. CASE br = NoLink
    <3>1. hist.disturbed = TRUE  BY <1>3, <2>3, Known
    <3>2. PICK d : d = [call EXCEPT !.pc = "verify-link"]  OBVIOUS
    <3>3. /\ d \in CallState /\ d.pc = "verify-link" /\ d.op = call.op /\ d.snap = call.snap
          /\ d.seen = call.seen /\ d.created = call.created /\ d.made = call.made
      BY <3>2, Known, GotoFields DEF Steps
    <3>4. PICK h : h = [hist EXCEPT !.late = FALSE]  OBVIOUS
    <3>5. h \in History /\ h.disturbed = TRUE  BY <3>1, <3>4, Known DEF History
    <3>6. Good(br, d, h)
      BY <1>2, <2>3, <3>3, <3>5, Known
      DEF Good, Typed, Shape, Own, Removed, Verified, Story, Looking, Ensuring
    <3>7. call' = d /\ hist' = h  BY <1>4, <3>2, <3>4 DEF BeginCheck
    <3>8. QED  BY <1>4, <3>6, <3>7 DEF Inv
  <2>4. QED  BY <2>2, <2>3, Known
<1>5. CASE /\ ~call.snap.up /\ Alive(call.snap)
           /\ br' = [br EXCEPT !.up = TRUE]
           /\ BeginCheck /\ UNCHANGED budget
  <2>1. br \in Link /\ br # NoLink  BY <1>5, Known DEF Alive
  <2>2. PICK b : b = [br EXCEPT !.up = TRUE]  OBVIOUS
  <2>3. /\ b \in Link /\ b.id = br.id /\ b.kind = br.kind /\ b.mtu = br.mtu
        /\ b.master = br.master /\ b.up = TRUE /\ b.ports = br.ports /\ b.addrs = br.addrs
    BY <2>1, <2>2 DEF Link
  <2>4. b # NoLink  BY <2>3, BridgeAssumption
  <2>5. hist.disturbed = FALSE => Complete(b)
    BY <1>3, <2>3, <2>4 DEF Complete, Ready, RightKind, Topology
  <2>6. br' = b  BY <1>5, <2>2
  <2>7. QED  BY <1>1, <1>3, <1>5, <2>1, <2>3, <2>4, <2>5, <2>6, FinalCheck
<1>6. CASE ~call.snap.up /\ ~Alive(call.snap) /\ NoFault /\ Goto("undo") /\ UNCHANGED br
  <2>1. hist.disturbed # FALSE  BY <1>3, <1>6 DEF Alive
  <2>2. QED  BY <1>1, <1>6, <2>1, GivesUp DEF Ensuring
<1>7. CASE ~call.snap.up /\ Failing("undo") /\ UNCHANGED br  BY <1>2, <1>7, FailingStep
<1>8. QED  BY <1>4, <1>5, <1>6, <1>7 DEF SetUp

(* A step of the check that goes on; seen is the link that it looked up.   *)
LEMMA Checks ==
  ASSUME Inv, call.pc \in Verifying, NEW pc \in {"verify-ports", "verify-addresses", "done"},
         NEW l \in Link, UNCHANGED br, NoFault,
         NEW d, d = [call EXCEPT !.pc = pc, !.seen = l], call' = d,
         hist.late = FALSE \/ hist.disturbed = FALSE =>
           /\ br = l /\ RightKind(br)
           /\ pc \in {"verify-addresses", "done"} => Ready(br) /\ br.up = TRUE
           /\ pc = "done" => Complete(br)
  PROVE  Inv'
<1>1. /\ d \in CallState /\ d.pc = pc /\ d.op = call.op /\ d.snap = call.snap
      /\ d.seen = l /\ d.created = call.created /\ d.made = call.made
  BY Known DEF CallState, Steps
<1>2. l # NoLink /\ call.pc # "idle"  BY BridgeAssumption DEF Verifying
<1>3. Typed(br, d, hist) /\ Shape(d) /\ Own(br, d) /\ Verified(br, d, hist)
  BY <1>1, <1>2, Known DEF Typed, Shape, Own, Verified, Looking, Ensuring
<1>4. Story(br, d, hist)
  <2>1. SUFFICES ASSUME hist.disturbed = FALSE
                 PROVE  /\ call.op = "ensure" => Undisturbed(br, d, hist)
                        /\ call.op = "check" => UndisturbedCheck(br, d, hist)
    BY <1>1 DEF Story
  <2>2. ASSUME call.op = "ensure" PROVE Undisturbed(br, d, hist)
    <3>1. Undisturbed(br, call, hist)  BY <2>1, <2>2, Known DEF Story
    <3>2. d.created = TRUE => hist.start = NoLink  BY <1>1, <3>1 DEF Undisturbed
    <3>3. ~Conflict(hist.start) /\ Complete(br)  BY <3>1 DEF Undisturbed
    <3>4. QED  BY <1>1, <2>1, <3>2, <3>3 DEF Undisturbed, Looking, Verifying
  <2>3. ASSUME call.op = "check" PROVE UndisturbedCheck(br, d, hist)
    <3>1. UndisturbedCheck(br, call, hist)  BY <2>1, <2>3, Known DEF Story
    <3>2. QED  BY <1>1, <1>2, <2>1, <3>1 DEF UndisturbedCheck
  <2>4. QED  BY <2>2, <2>3
<1>5. d.pc # "failed"  BY <1>1
<1>6. QED  BY <1>3, <1>4, <1>5, GoesOn

(* What a call in its final check knows.                                   *)
LEMMA OnCheck ==
  ASSUME Inv, call.pc \in Verifying
  PROVE  /\ ~At("idle")
         /\ hist.disturbed = FALSE /\ call.op = "ensure" => ~Conflict(hist.start) /\ Complete(br)
         /\ hist.disturbed = FALSE /\ call.op = "check" => br = hist.start
         /\ call.pc # "verify-link" => call.seen \in Link
         /\ hist.late = FALSE \/ hist.disturbed = FALSE =>
              /\ call.pc # "verify-link" =>
                   /\ br = call.seen /\ RightKind(br) /\ br # NoLink
                   /\ PortsOf(call.seen) = br.ports /\ AddrsOf(call.seen) = br.addrs
              /\ call.pc = "verify-addresses" => Ready(br) /\ br.up = TRUE
<1>1. ~At("idle") /\ call.pc \in {"verify-link", "verify-ports", "verify-addresses"}
  BY DEF At, Verifying
<1>2. call.op \in {"ensure", "check"}  BY <1>1, Known DEF Shape, CallState, At
<1>3. call.pc # "verify-link" => call.seen \in Link  BY <1>1, Known DEF Typed
<1>4. hist.disturbed = FALSE /\ call.op = "ensure" =>
        /\ ~Conflict(hist.start) /\ Complete(br)
        /\ call.pc # "verify-link" => call.seen = br
  BY <1>1, Known DEF Story, Undisturbed, Verifying
<1>5. hist.disturbed = FALSE /\ call.op = "check" =>
        /\ br = hist.start
        /\ call.pc # "verify-link" => call.seen = br /\ RightKind(br)
        /\ call.pc = "verify-addresses" => Ready(br) /\ br.up = TRUE
  <2>1. SUFFICES ASSUME hist.disturbed = FALSE, call.op = "check"
                 PROVE  /\ br = hist.start
                        /\ call.pc # "verify-link" => call.seen = br /\ RightKind(br)
                        /\ call.pc = "verify-addresses" => Ready(br) /\ br.up = TRUE
    OBVIOUS
  <2>2. UndisturbedCheck(br, call, hist)  BY <2>1, Known DEF Story
  <2>3. QED  BY <1>1, <2>2 DEF UndisturbedCheck, Ready
<1>6. hist.late = FALSE =>
        /\ call.pc # "verify-link" => call.seen = br /\ RightKind(br)
        /\ call.pc = "verify-addresses" => Ready(br) /\ br.up = TRUE
  BY <1>1, Known DEF Verified
<1>7. hist.late = FALSE \/ hist.disturbed = FALSE =>
        /\ call.pc # "verify-link" => call.seen = br /\ RightKind(br)
        /\ call.pc = "verify-addresses" => Ready(br) /\ br.up = TRUE
  BY <1>2, <1>4, <1>5, <1>6 DEF Complete, Ready
<1>8. call.pc # "verify-link" /\ call.seen = br =>
        PortsOf(call.seen) = br.ports /\ AddrsOf(call.seen) = br.addrs /\ br # NoLink
  BY <1>3, BridgeAssumption DEF PortsOf, AddrsOf, Alive
<1>9. QED  BY <1>1, <1>3, <1>4, <1>5, <1>7, <1>8

LEMMA VerifyLinkStep ==
  ASSUME Inv, VerifyLink
  PROVE  Inv'
<1>1. call.pc = "verify-link" /\ call.pc \in Verifying  BY DEF VerifyLink, At, Verifying
<1>2. CASE /\ br # NoLink /\ RightKind(br) /\ NoFault
           /\ call' = [call EXCEPT !.seen = br, !.pc = "verify-ports"]
  <2>1. br \in Link /\ UNCHANGED br  BY <1>2, Known DEF VerifyLink
  <2>2. PICK d : d = [call EXCEPT !.pc = "verify-ports", !.seen = br]  OBVIOUS
  <2>3. call' = d  BY <1>2, <2>2
  <2>4. QED  BY <1>1, <1>2, <2>1, <2>2, <2>3, Checks
<1>3. CASE ~(br # NoLink /\ RightKind(br)) /\ NoFault /\ Goto("undo")
  <2>1. UNCHANGED br /\ ~Complete(br)  BY <1>3 DEF VerifyLink, Complete
  <2>2. hist.disturbed = FALSE => /\ call.op = "ensure" => Conflict(hist.start)
                                  /\ call.op = "check" => ~Complete(hist.start)
    BY <1>1, <2>1, OnCheck
  <2>3. QED  BY <1>1, <1>3, <2>1, <2>2, GivesUp
<1>4. CASE Failing("undo")
  BY <1>1, <1>4, OnCheck, FailingStep DEF VerifyLink
<1>5. QED  BY <1>2, <1>3, <1>4 DEF VerifyLink

LEMMA VerifyPortsStep ==
  ASSUME Inv, VerifyPorts
  PROVE  Inv'
<1> DEFINE ok == Topology(call.seen, PortsOf(call.seen)) /\ call.seen.up
<1>1. call.pc = "verify-ports" /\ call.pc \in Verifying  BY DEF VerifyPorts, At, Verifying
<1>2. UNCHANGED br
      /\ ((NoFault /\ Goto(IF ok THEN "verify-addresses" ELSE "undo")) \/ Failing("undo"))
  BY DEF VerifyPorts, Reads
<1>3. CASE NoFault /\ Goto("verify-addresses") /\ ok
  <2>1. call.seen \in Link  BY <1>1, OnCheck
  <2>2. PICK d : d = [call EXCEPT !.pc = "verify-addresses", !.seen = call.seen]  OBVIOUS
  <2>3. call' = d  BY <1>3, <2>2, Known DEF Goto, CallState
  <2>4. hist.late = FALSE \/ hist.disturbed = FALSE =>
          br = call.seen /\ RightKind(br) /\ Ready(br) /\ br.up = TRUE
    BY <1>1, <1>3, OnCheck DEF Ready
  <2>5. QED  BY <1>1, <1>2, <1>3, <2>1, <2>2, <2>3, <2>4, Checks
<1>4. CASE NoFault /\ Goto("undo") /\ ~ok
  <2>1. hist.disturbed = FALSE => ~Complete(br)
    BY <1>1, <1>4, OnCheck DEF Complete
  <2>2. hist.disturbed = FALSE => /\ call.op = "ensure" => Conflict(hist.start)
                                  /\ call.op = "check" => ~Complete(hist.start)
    BY <1>1, <2>1, OnCheck
  <2>3. QED  BY <1>1, <1>2, <1>4, <2>2, GivesUp
<1>5. CASE Failing("undo")  BY <1>1, <1>2, <1>5, OnCheck, FailingStep
<1>6. QED  BY <1>2, <1>3, <1>4, <1>5

LEMMA VerifyAddressesStep ==
  ASSUME Inv, VerifyAddresses
  PROVE  Inv'
<1> DEFINE ok == Present(AddrsOf(call.seen))
<1>1. call.pc = "verify-addresses" /\ call.pc \in Verifying
  BY DEF VerifyAddresses, At, Verifying
<1>2. UNCHANGED br /\ ((NoFault /\ Goto(IF ok THEN "done" ELSE "undo")) \/ Failing("undo"))
  BY DEF VerifyAddresses, Reads
<1>3. CASE NoFault /\ Goto("done") /\ ok
  <2>1. call.seen \in Link  BY <1>1, OnCheck
  <2>2. PICK d : d = [call EXCEPT !.pc = "done", !.seen = call.seen]  OBVIOUS
  <2>3. call' = d  BY <1>3, <2>2, Known DEF Goto, CallState
  <2>4. hist.late = FALSE \/ hist.disturbed = FALSE =>
          br = call.seen /\ RightKind(br) /\ Ready(br) /\ br.up = TRUE /\ Complete(br)
    BY <1>1, <1>3, OnCheck DEF Ready, Complete
  <2>5. QED  BY <1>1, <1>2, <1>3, <2>1, <2>2, <2>3, <2>4, Checks
<1>4. CASE NoFault /\ Goto("undo") /\ ~ok
  <2>1. hist.disturbed = FALSE => ~Complete(br)
    BY <1>1, <1>4, OnCheck DEF Complete
  <2>2. hist.disturbed = FALSE => /\ call.op = "ensure" => Conflict(hist.start)
                                  /\ call.op = "check" => ~Complete(hist.start)
    BY <1>1, <2>1, OnCheck
  <2>3. QED  BY <1>1, <1>2, <1>4, <2>2, GivesUp
<1>5. CASE Failing("undo")  BY <1>1, <1>2, <1>5, OnCheck, FailingStep
<1>6. QED  BY <1>2, <1>3, <1>4, <1>5

(* The rollback.                                                           *)
LEMMA UndoStep ==
  ASSUME Inv, Undo
  PROVE  Inv'
<1>1. call.pc = "undo" /\ ~At("idle") /\ At("undo")  BY DEF Undo, At
<1>2. PICK d : d = [call EXCEPT !.pc = "failed"]  OBVIOUS
<1>3. /\ d \in CallState /\ d.pc = "failed" /\ d.op = call.op /\ d.snap = call.snap
      /\ d.seen = call.seen /\ d.created = call.created /\ d.made = call.made
  BY <1>2, Known, GotoFields DEF Steps
<1>4. CASE call.created /\ Failing("failed") /\ UNCHANGED br
  BY <1>1, <1>4, FailingStep
<1>5. CASE /\ NoFault /\ Goto("failed")
           /\ br' = IF call.created /\ br # NoLink /\ br.id = Target THEN NoLink ELSE br
  <2>1. PICK b \in {br, NoLink} :
          b = IF call.created /\ br # NoLink /\ br.id = Target THEN NoLink ELSE br
    OBVIOUS
  <2>2. Typed(b, d, hist) /\ Shape(d) /\ Own(b, d) /\ Verified(b, d, hist)
    BY <1>1, <1>3, <2>1, Known DEF Typed, Shape, Own, Verified, Looking, Ensuring
  <2>3. Removed(b, d, hist)
    <3>1. SUFFICES ASSUME call.created = TRUE, b # NoLink, b.id = call.made PROVE FALSE
      BY <1>3 DEF Removed
    <3>2. b = br /\ br.id # Target  BY <2>1, <3>1
    <3>3. QED  BY <3>1, <3>2, Known DEF Target, Own
  <2>4. Story(b, d, hist)
    <3>1. SUFFICES ASSUME hist.disturbed = FALSE
                   PROVE  /\ call.op = "ensure" => Undisturbed(b, d, hist)
                          /\ call.op = "check" => UndisturbedCheck(b, d, hist)
      BY <1>3 DEF Story
    <3>2. ASSUME call.op = "ensure" PROVE Undisturbed(b, d, hist)
      <4>1. Undisturbed(br, call, hist)  BY <3>1, <3>2, Known DEF Story
      <4>2. Conflict(hist.start) => b = hist.start
        BY <1>1, <2>1, <3>1, <4>1, Known, StillThere
      <4>3. d.created = TRUE => hist.start = NoLink  BY <1>3, <4>1 DEF Undisturbed
      <4>4. hist.faulted = FALSE => Conflict(hist.start)  BY <1>1, <4>1 DEF Undisturbed
      <4>5. QED  BY <1>3, <4>2, <4>3, <4>4 DEF Undisturbed, Looking, Verifying
    <3>3. ASSUME call.op = "check" PROVE UndisturbedCheck(b, d, hist)
      <4>1. UndisturbedCheck(br, call, hist)  BY <3>1, <3>3, Known DEF Story
      <4>2. b = br  BY <2>1, <3>3, Known DEF Shape
      <4>3. QED  BY <1>1, <1>3, <4>1, <4>2 DEF UndisturbedCheck
    <3>4. QED  BY <3>2, <3>3
  <2>5. hist' = hist /\ budget' = budget /\ br' = b /\ call' = d
    BY <1>2, <1>5, <2>1 DEF NoFault, Goto
  <2>6. QED  BY <2>2, <2>3, <2>4, <2>5 DEF Inv, Good
<1>6. QED  BY <1>4, <1>5 DEF Undo
-----------------------------------------------------------------------------
(* No call is running.                                                     *)
LEMMA AtRest ==
  ASSUME NEW b \in Link \cup {NoLink}, NEW h \in History
  PROVE  Good(b, Idle, h)
<1>1. Idle \in CallState /\ Idle.pc = "idle" /\ Idle.op = "none" /\ Idle.created = FALSE
  BY DEF Idle, CallState, Steps
<1>2. QED
  BY <1>1 DEF Good, Typed, Shape, Own, Removed, Verified, Story, Looking, Ensuring

LEMMA ReturnStep ==
  ASSUME Inv, Return \/ Crash
  PROVE  Inv'
<1>1. call' = Idle /\ br' = br /\ hist' = hist  BY DEF Return, Crash
<1>2. budget' \in 0..MaxFaults  BY BridgeAssumption DEF Return, Crash, Inv
<1>3. QED  BY <1>1, <1>2, AtRest, Known DEF Inv

LEMMA BeginStep ==
  ASSUME Inv, NEW op \in {"ensure", "check"}, Begin(op)
  PROVE  Inv'
<1>1. PICK pc \in {"find", "verify-link"} :
        pc = IF op = "ensure" THEN "find" ELSE "verify-link"
  OBVIOUS
<1>2. PICK d : d = [Idle EXCEPT !.op = op, !.pc = pc]  OBVIOUS
<1>3. /\ d \in CallState /\ d.pc = pc /\ d.op = op /\ d.snap = NoLink
      /\ d.created = FALSE
  BY <1>1, <1>2 DEF Idle, CallState, Steps
<1>4. PICK h : h = [start |-> br, disturbed |-> FALSE, late |-> FALSE, faulted |-> FALSE,
                    stuck |-> FALSE, shared |-> IF br = NoLink THEN NoLink ELSE br.id]
  OBVIOUS
<1>5. h \in History /\ h.start = br /\ h.faulted = FALSE
  <2>1. (IF br = NoLink THEN NoLink ELSE br.id) \in Id \cup {NoLink}  BY Known DEF Link
  <2>2. QED  BY <1>4, <2>1, Known DEF History
<1>6. Typed(br, d, h) /\ Shape(d) /\ Own(br, d) /\ Removed(br, d, h) /\ Verified(br, d, h)
  BY <1>1, <1>3, <1>5, Known DEF Typed, Shape, Own, Removed, Verified, Looking, Ensuring
<1>7. Story(br, d, h)
  <2>1. op = "ensure" => Undisturbed(br, d, h)
    BY <1>1, <1>3, <1>5 DEF Undisturbed, Looking, Verifying
  <2>2. op = "check" => UndisturbedCheck(br, d, h)
    BY <1>1, <1>3, <1>5 DEF UndisturbedCheck
  <2>3. QED  BY <1>3, <2>1, <2>2 DEF Story
<1>8. call' = d /\ hist' = h /\ br' = br /\ budget' = budget
  BY <1>1, <1>2, <1>4 DEF Begin
<1>9. QED  BY <1>6, <1>7, <1>8 DEF Inv, Good

(* The link to be kept after somebody else has left b under the name.      *)
SharedAfter(b) ==
  IF b = NoLink THEN NoLink
  ELSE IF br = NoLink /\ BeforeAdd THEN b.id ELSE hist.shared

(* One thing of a link is changed, or it is deleted, or there is a new one. *)
LEMMA AdminChanges ==
  ASSUME Inv, NEW b \in AdminLinks
  PROVE  /\ b \in Link \cup {NoLink}
         /\ b # NoLink /\ br # NoLink =>
              b.id = br.id /\ b.ports \cap OwnPort = br.ports \cap OwnPort
         /\ b # NoLink /\ br = NoLink => ~InUse(b.id) /\ b.ports = {}
<1>1. CASE br = NoLink  BY <1>1 DEF AdminLinks
<1>2. CASE br # NoLink
  <2>1. br \in Link  BY <1>2, Known
  <2>2. ASSUME b # NoLink
        PROVE  b \in Link /\ b.id = br.id /\ b.ports \cap OwnPort = br.ports \cap OwnPort
    <3>1. CASE b = [br EXCEPT !.up = ~br.up]  BY <2>1, <3>1 DEF Link
    <3>2. CASE b = [br EXCEPT !.master = ~br.master]  BY <2>1, <3>2 DEF Link
    <3>3. CASE \E m \in Mtu : b = [br EXCEPT !.mtu = m]  BY <2>1, <3>3 DEF Link
    <3>4. CASE \E a \in SUBSET Address : b = [br EXCEPT !.addrs = a]
      BY <2>1, <3>4 DEF Link
    <3>5. CASE \E f \in ForeignPort : b = [br EXCEPT !.ports = br.ports \cup {f}]
      <4>1. PICK f \in ForeignPort : b = [br EXCEPT !.ports = br.ports \cup {f}]  BY <3>5
      <4>2. PICK p \in SUBSET (OwnPort \cup ForeignPort) : p = br.ports \cup {f}
        BY <2>1 DEF Link
      <4>3. p \cap OwnPort = br.ports \cap OwnPort  BY <4>2, BridgeAssumption
      <4>4. b = [br EXCEPT !.ports = p]  BY <4>1, <4>2
      <4>5. QED  BY <2>1, <4>3, <4>4 DEF Link
    <3>6. CASE b = [br EXCEPT !.ports = br.ports \ ForeignPort]
      <4>1. PICK p \in SUBSET (OwnPort \cup ForeignPort) : p = br.ports \ ForeignPort
        BY <2>1 DEF Link
      <4>2. p \cap OwnPort = br.ports \cap OwnPort  BY <4>1, BridgeAssumption
      <4>3. b = [br EXCEPT !.ports = p]  BY <3>6, <4>1
      <4>4. QED  BY <2>1, <4>2, <4>3 DEF Link
    <3>7. QED  BY <1>2, <2>2, <3>1, <3>2, <3>3, <3>4, <3>5, <3>6 DEF AdminLinks
  <2>3. QED  BY <1>2, <2>2
<1>3. QED  BY <1>1, <1>2

(* Whatever others do to the link, they do not bring back one that is gone. *)
LEMMA AdminStep ==
  ASSUME Inv, AdminActs
  PROVE  Inv'
<1>1. PICK b \in AdminLinks : br' = b  BY DEF AdminActs
<1>2. b \in Link \cup {NoLink} /\ (b # NoLink /\ br # NoLink => b.id = br.id)
      /\ (b # NoLink /\ br = NoLink => ~InUse(b.id))
  BY AdminChanges
<1>3. PICK s \in Id \cup {NoLink} : s = SharedAfter(b)
  BY <1>2, Known DEF SharedAfter, History, Link
<1>4. PICK h : h = [hist EXCEPT !.disturbed = TRUE, !.late = TRUE, !.shared = s]  OBVIOUS
<1>5. /\ h \in History /\ h.disturbed = TRUE /\ h.late = TRUE /\ h.stuck = hist.stuck
  BY <1>4, Known DEF History
<1>6. b # NoLink /\ br = NoLink => b.id # call.made  BY <1>2 DEF InUse
<1>7. Own(b, call) /\ Removed(b, call, h)
  <2>1. Removed(br, call, hist)  BY DEF Inv, Good
  <2>2. QED  BY <1>2, <1>5, <1>6, <2>1, Known DEF Own, Removed
<1>8. Typed(b, call, h) /\ Shape(call) /\ Verified(b, call, h) /\ Story(b, call, h)
  BY <1>2, <1>5, Known DEF Typed, Verified, Story
<1>9. call' = call /\ hist' = h /\ br' = b /\ budget' \in 0..MaxFaults
  BY <1>1, <1>3, <1>4, BridgeAssumption DEF AdminActs, Disturb, SharedAfter, Inv
<1>10. QED  BY <1>7, <1>8, <1>9 DEF Inv, Good

LEMMA EndpointBridge ==
  ASSUME Inv, NEW o \in OwnPort, EndpointAttaches(o) \/ EndpointLeaves(o)
  PROVE  br' \in Link /\ br' # NoLink
<1>1. br \in Link  BY Known DEF EndpointAttaches, EndpointLeaves
<1>2. CASE br' = [br EXCEPT !.ports = br.ports \cup {o}]
  <2>1. br.ports \cup {o} \in SUBSET (OwnPort \cup ForeignPort)  BY <1>1 DEF Link
  <2>2. QED  BY <1>1, <1>2, <2>1, BridgeAssumption DEF Link
<1>3. CASE br' = [br EXCEPT !.ports = br.ports \ {o}]
  <2>1. br.ports \ {o} \in SUBSET (OwnPort \cup ForeignPort)  BY <1>1 DEF Link
  <2>2. QED  BY <1>1, <1>3, <2>1, BridgeAssumption DEF Link
<1>4. QED  BY <1>2, <1>3 DEF EndpointAttaches, EndpointLeaves

LEMMA EndpointStep ==
  ASSUME Inv, NEW o \in OwnPort, EndpointAttaches(o) \/ EndpointLeaves(o)
  PROVE  Inv'
<1>1. call.pc = "idle" /\ br \in Link /\ br # NoLink /\ call' = call /\ hist' = hist
      /\ budget' = budget
  BY Known DEF EndpointAttaches, EndpointLeaves, At
<1>2. br' \in Link  BY EndpointBridge
<1>3. PICK b \in Link : b = br'  BY <1>2
<1>4. call.op = "none" /\ call.created = FALSE  BY <1>1, Known DEF Shape
<1>5. Good(b, call, hist)
  BY <1>1, <1>4, Known DEF Good, Typed, Own, Removed, Verified, Story, Looking
<1>6. QED  BY <1>1, <1>3, <1>5 DEF Inv
-----------------------------------------------------------------------------
LEMMA InitInv ==
  ASSUME Init
  PROVE  Inv
<1>1. hist \in History /\ br \in Link \cup {NoLink} /\ call = Idle  BY DEF Init, History
<1>2. budget \in 0..MaxFaults  BY BridgeAssumption DEF Init
<1>3. QED  BY <1>1, <1>2, AtRest DEF Inv

LEMMA NextInv ==
  ASSUME Inv, [Next]_vars
  PROVE  Inv'
<1>1. ASSUME Step PROVE Inv'
  BY <1>1, FindStep, AddStep, ReloadStep, CheckTopologyStep, ListAddressesStep,
     AddAddressStep, SetUpStep, VerifyLinkStep, VerifyPortsStep, VerifyAddressesStep,
     UndoStep DEF Step
<1>2. CASE UNCHANGED vars
  <2>1. br' = br /\ call' = call /\ hist' = hist /\ budget' = budget  BY <1>2 DEF vars
  <2>2. QED  BY <2>1 DEF Inv
<1>3. QED
  BY <1>1, <1>2, BeginStep, ReturnStep, AdminStep, EndpointStep DEF Next

LEMMA InvAlways == Spec => []Inv
  BY InitInv, NextInv, PTL DEF Spec

(* The types; and a request by index always has a link to take it from     *)
(* (bridge.go:39-70).                                                      *)
THEOREM BridgeTypeCorrect == Spec => []BridgeTypeOK
<1>1. Inv => BridgeTypeOK
  BY DEF Inv, Good, Typed, BridgeTypeOK, Looking
<1>2. QED  BY <1>1, InvAlways, PTL

(* A conflicting link is never touched (bridge.go:48-87).                  *)
THEOREM ConflictsUntouched == Spec => []ConflictsLeftAlone
<1>1. ASSUME Inv PROVE ConflictsLeftAlone
  <2>1. SUFFICES ASSUME call.pc # "idle", Conflict(hist.start), hist.disturbed = FALSE
                 PROVE  br = hist.start
    BY <1>1, Known DEF ConflictsLeftAlone, At
  <2>2. QED  BY <1>1, <2>1, Known, StillThere
<1>2. QED  BY <1>1, InvAlways, PTL

(* A call that succeeds has verified the bridge as it is (bridge.go:       *)
(* 104-143).                                                               *)
THEOREM DeliversComplete == Spec => []EnsureDelivers
<1>1. ASSUME Inv PROVE EnsureDelivers
  BY <1>1, Known DEF EnsureDelivers, Verified, At
<1>2. QED  BY <1>1, InvAlways, PTL

(* From any link that is no conflict EnsureBridge succeeds, whatever an    *)
(* earlier call has left; CHECK accepts what is complete (bridge.go:       *)
(* 24-143).                                                                *)
THEOREM HealsEverything == Spec => []EnsureHeals
<1>1. ASSUME Inv PROVE EnsureHeals
  <2>1. SUFFICES ASSUME call.pc = "failed", hist.disturbed = FALSE, hist.faulted = FALSE
                 PROVE  IF call.op = "ensure" THEN Conflict(hist.start)
                        ELSE ~Complete(hist.start)
    BY <1>1, Known DEF EnsureHeals, At
  <2>2. call.op \in {"ensure", "check"}  BY <1>1, <2>1, Known DEF Shape, CallState
  <2>3. QED  BY <1>1, <2>1, <2>2, Known DEF Story, Undisturbed, UndisturbedCheck
<1>2. QED  BY <1>1, InvAlways, PTL

(* A failed call leaves nothing it has made, unless it cannot be removed   *)
(* (bridge.go:39-46, 215-225).                                             *)
THEOREM FailedCallUndone == Spec => []CreatedOrUndone
<1>1. ASSUME Inv PROVE CreatedOrUndone
  <2>1. Removed(br, call, hist) /\ hist.stuck \in BOOLEAN
    BY <1>1, Known DEF Inv, Good, History
  <2>2. QED  BY <1>1, <2>1, Known DEF Removed, CreatedOrUndone, At
<1>2. QED  BY <1>1, InvAlways, PTL
-----------------------------------------------------------------------------
(* The link that others made before the call could make one: a call that   *)
(* has made a link shares none, and a bridge with endpoints of the network *)
(* is shared, because none is attached while a call is running.            *)
Sharing(b, c, s) ==
  /\ b = NoLink \/ c.created = TRUE => s = NoLink
  /\ c.pc # "idle" /\ b # NoLink /\ b.ports \cap OwnPort # {} => s = b.id

Shared == Sharing(br, call, hist.shared)

(* A link that a request leaves as shared as it was.                       *)
Same(b, d) ==
  (b = NoLink <=> d = NoLink) /\ (b # NoLink => d.id = b.id /\ d.ports = b.ports)

LEMMA GotoKeeps ==
  ASSUME Inv, NEW pc \in Steps, Goto(pc)
  PROVE  call'.created = call.created
  BY Known DEF Goto, CallState

LEMMA HistKeeps ==
  ASSUME Inv, NoFault \/ BeginCheck \/ (\E pc \in Steps : Failing(pc))
  PROVE  hist'.shared = hist.shared
  BY Known DEF NoFault, BeginCheck, Failing, History

(* A request makes the bridge, or deletes the one that the call has made,  *)
(* or leaves the identity and the ports of the link as they are.           *)
LEMMA Requests ==
  ASSUME Inv, Step
  PROVE  /\ hist'.shared = hist.shared
         /\ \/ Same(br, br') /\ call'.created = call.created
            \/ br = NoLink /\ \E i \in Id : br' = NewBridge(i)
            \/ /\ br' = NoLink /\ br # NoLink /\ br \in Link /\ br.id = Target
               /\ call.created = TRUE /\ call'.created = call.created
<1>1. ASSUME NEW ok, NEW to \in Steps, Reads(ok, to)
      PROVE  hist'.shared = hist.shared /\ Same(br, br') /\ call'.created = call.created
  <2>1. \E pc \in Steps : Goto(pc)  BY <1>1 DEF Reads, Failing, Steps
  <2>2. QED  BY <1>1, <2>1, GotoKeeps, HistKeeps DEF Reads, Same, Steps
<1>2. CASE CheckTopology \/ ListAddresses \/ VerifyPorts \/ VerifyAddresses
  <2>1. CheckTopology => \E ok : Reads(ok, "addresses")  BY DEF CheckTopology
  <2>2. VerifyPorts => \E ok : Reads(ok, "verify-addresses")  BY DEF VerifyPorts
  <2>3. VerifyAddresses => \E ok : Reads(ok, "done")  BY DEF VerifyAddresses
  <2>4. ListAddresses => \E ok : Reads(ok, "add-address") \/ Reads(ok, "set-up")
    BY DEF ListAddresses
  <2>5. \E ok : \E to \in Steps : Reads(ok, to)  BY <1>2, <2>1, <2>2, <2>3, <2>4 DEF Steps
  <2>6. QED  BY <1>1, <2>5
<1>3. CASE Find \/ Reload \/ VerifyLink
  <2>1. Same(br, br')  BY <1>3 DEF Find, Reload, VerifyLink, Same
  <2>2. hist'.shared = hist.shared
    BY <1>3, HistKeeps DEF Find, Reload, VerifyLink, Steps
  <2>3. call'.created = call.created
    <3>1. ASSUME NEW pc, call' = [call EXCEPT !.snap = br, !.pc = pc]
                         \/ call' = [call EXCEPT !.seen = br, !.pc = pc]
          PROVE  call'.created = call.created
      BY <3>1, Known DEF CallState
    <3>2. QED
      BY <1>3, <3>1, GotoKeeps DEF Find, Reload, VerifyLink, Failing, Steps
  <2>4. QED  BY <2>1, <2>2, <2>3
<1>4. CASE Add
  <2>1. hist'.shared = hist.shared  BY <1>4, HistKeeps DEF Add, Steps
  <2>2. CASE br = NoLink /\ \E i \in Id : br' = NewBridge(i)  BY <2>1, <2>2
  <2>3. CASE UNCHANGED br /\ (Goto("reload") \/ Failing("failed"))
    BY <2>1, <2>3, GotoKeeps DEF Failing, Same, Steps
  <2>4. QED  BY <1>4, <2>2, <2>3 DEF Add
<1>5. CASE AddAddress \/ SetUp
  <2>1. hist'.shared = hist.shared  BY <1>5, HistKeeps DEF AddAddress, SetUp, Steps
  <2>2. call'.created = call.created
    <3>1. BeginCheck => call'.created = call.created  BY Known DEF BeginCheck, CallState
    <3>2. QED  BY <1>5, <3>1, GotoKeeps DEF AddAddress, SetUp, Failing, Steps
  <2>3. Same(br, br')
    <3>1. CASE br' = br  BY <3>1 DEF Same
    <3>2. CASE Alive(call.snap)
      <4>1. br \in Link /\ br # NoLink  BY <3>2, Known DEF Alive
      <4>2. CASE br' = [br EXCEPT !.addrs = br.addrs \cup {Gateway}]
        <5>1. PICK a \in SUBSET Address : a = br.addrs \cup {Gateway}
          BY <4>1, BridgeAssumption DEF Link
        <5>2. br' = [br EXCEPT !.addrs = a]  BY <4>2, <5>1
        <5>3. br' \in Link /\ br'.id = br.id /\ br'.ports = br.ports
          BY <4>1, <5>2 DEF Link
        <5>4. QED  BY <4>1, <5>3, BridgeAssumption DEF Same
      <4>3. CASE br' = [br EXCEPT !.up = TRUE]
        <5>1. br' \in Link /\ br'.id = br.id /\ br'.ports = br.ports
          BY <4>1, <4>3 DEF Link
        <5>2. QED  BY <4>1, <5>1, BridgeAssumption DEF Same
      <4>4. QED  BY <1>5, <3>1, <4>2, <4>3 DEF AddAddress, SetUp
    <3>3. QED  BY <1>5, <3>1, <3>2 DEF AddAddress, SetUp
  <2>4. QED  BY <2>1, <2>2, <2>3
<1>6. CASE Undo
  <2>1. hist'.shared = hist.shared /\ call'.created = call.created
    BY <1>6, HistKeeps, GotoKeeps DEF Undo, Failing, Steps
  <2>2. CASE br' = br  BY <2>1, <2>2 DEF Same
  <2>3. CASE call.created /\ br # NoLink /\ br.id = Target /\ br' = NoLink
    BY <2>1, <2>3, Known
  <2>4. QED  BY <1>6, <2>2, <2>3 DEF Undo
<1>7. QED  BY <1>2, <1>3, <1>4, <1>5, <1>6 DEF Step

(* What others do, and the beginning and the end of a call.                *)
LEMMA SharedNext ==
  ASSUME Inv, Inv', Shared, [Next]_vars
  PROVE  Shared'
<1>1. Sharing(br, Idle, hist.shared)
  BY DEF Shared, Sharing, Idle
<1>2. CASE Step
  <2>1. call.pc # "idle"
    BY <1>2 DEF Step, Find, Add, Reload, CheckTopology, ListAddresses, AddAddress, SetUp,
                VerifyLink, VerifyPorts, VerifyAddresses, Undo, At
  <2>2. CASE Same(br, br') /\ call'.created = call.created
    BY <1>2, <2>1, <2>2, Requests DEF Shared, Sharing, Same
  <2>3. CASE br = NoLink /\ \E i \in Id : br' = NewBridge(i)
    <3>1. br' # NoLink  BY <2>3, NewBridgeReady
    <3>2. br'.ports = {}  BY <2>3 DEF NewBridge
    <3>3. QED  BY <1>2, <2>3, <3>1, <3>2, Requests DEF Shared, Sharing
  <2>4. CASE br' = NoLink /\ call.created = TRUE
    BY <1>2, <2>4, Requests DEF Shared, Sharing
  <2>5. QED  BY <1>2, <2>2, <2>3, <2>4, Requests
<1>3. CASE \E op \in {"ensure", "check"} : Begin(op)
  <2>1. /\ br' = br /\ hist'.shared = IF br = NoLink THEN NoLink ELSE br.id
        /\ call'.created = FALSE
    BY <1>3 DEF Begin, Idle
  <2>2. QED  BY <2>1 DEF Shared, Sharing
<1>4. CASE Return \/ Crash
  <2>1. br' = br /\ hist' = hist /\ call' = Idle  BY <1>4 DEF Return, Crash
  <2>2. QED  BY <1>1, <2>1 DEF Shared
<1>5. CASE AdminActs
  <2>1. PICK b \in AdminLinks : br' = b  BY <1>5 DEF AdminActs
  <2>2. hist'.shared = SharedAfter(b) /\ call' = call
    BY <1>5, <2>1, Known DEF AdminActs, Disturb, SharedAfter, History
  <2>3. call.created = TRUE => ~BeforeAdd  BY Known DEF BeforeAdd, Shape
  <2>4. Sharing(b, call, SharedAfter(b))
    BY <2>3, AdminChanges DEF Shared, Sharing, SharedAfter
  <2>5. QED  BY <2>1, <2>2, <2>4 DEF Shared
<1>6. CASE \E o \in OwnPort : EndpointAttaches(o) \/ EndpointLeaves(o)
  <2>1. call.pc = "idle" /\ call' = call /\ hist' = hist /\ br # NoLink
    BY <1>6 DEF EndpointAttaches, EndpointLeaves, At
  <2>2. call.created = FALSE  BY <2>1, Known DEF Shape
  <2>3. br' # NoLink
    BY <1>6, EndpointBridge
  <2>4. QED  BY <2>1, <2>2, <2>3 DEF Shared, Sharing
<1>7. CASE UNCHANGED vars  BY <1>7 DEF vars, Shared
<1>8. QED  BY <1>2, <1>3, <1>4, <1>5, <1>6, <1>7 DEF Next

LEMMA SharedAlways == Spec => []Shared
<1>1. Init => Shared  BY DEF Init, Idle, Shared, Sharing
<1>2. Inv /\ Inv' /\ Shared /\ [Next]_vars => Shared'  BY SharedNext
<1>3. QED  BY <1>1, <1>2, InvAlways, PTL DEF Spec

(* EnsureBridge never deletes a bridge that it has found, nor one with     *)
(* endpoints: its rollback runs only after a LinkAdd of its own, and then  *)
(* nobody had a link of that name before (bridge.go:34-46, 215-225).       *)
THEOREM SharedBridgeSurvives == Spec => SharedBridgeKept
<1> DEFINE Kept == Step /\ br # NoLink /\ br' = NoLink =>
                     br.id # hist.shared /\ br.ports \cap OwnPort = {}
<1>1. ASSUME Inv, Shared, [Next]_vars PROVE Kept
  <2>1. SUFFICES ASSUME Step, br # NoLink, br' = NoLink
                 PROVE  br.id # hist.shared /\ br.ports \cap OwnPort = {}
    OBVIOUS
  <2>2. call.created = TRUE /\ br \in Link
    BY <1>1, <2>1, Requests DEF Same
  <2>3. hist.shared = NoLink  BY <1>1, <2>2 DEF Shared, Sharing
  <2>4. br.id \in Id  BY <2>2 DEF Link
  <2>5. br.id # hist.shared  BY <2>3, <2>4, BridgeAssumption
  <2>6. call.pc # "idle"  BY <1>1, <2>2, Known DEF Shape
  <2>7. QED  BY <1>1, <2>1, <2>5, <2>6 DEF Shared, Sharing
<1>2. Inv /\ Shared /\ [Next]_vars => [Kept]_vars  BY <1>1
<1>3. QED  BY <1>2, InvAlways, SharedAlways, PTL DEF Spec, SharedBridgeKept
=============================================================================
