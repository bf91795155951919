-------------------------- MODULE StateFileProofs --------------------------
(***************************************************************************)
(* The state file is safe for any number of invocations, any path, any     *)
(* number of changes and faults: invocations that create the path at once  *)
(* meet at one lock, no power loss leaves half a state or takes back an    *)
(* acknowledged one, and the steps implement AtomicFile.                   *)
(***************************************************************************)
EXTENDS StateFile, TLAPS

Searching == {"open", "mkdir"}
Held == {"load", "callback", "create", "inspect", "write", "sync", "rename", "dirsync"}
Working == Held \ {"load"}

(* A directory that is on a path from the root.                            *)
Live(d) == d = Root \/ \E e \in Dir : child[e] = d

(* There is one live directory at most at each level.                      *)
Tree ==
  /\ \A d \in Dir : child[d] # NoDir => Live(d) /\ Level[child[d]] = Level[d] + 1
  /\ \A d, e \in Dir : Live(d) /\ Live(e) /\ Level[d] = Level[e] => d = e

(* Where an invocation of state i stands in the tree, what it holds and    *)
(* how its copy compares with the file.                                    *)
Place(i) ==
  /\ Live(i.fd)
  /\ i.pc = "idle" => i.fd = Root
  /\ i.pc \in Searching => Level[i.fd] < Depth
  /\ i.pc \notin Searching \cup {"idle"} => Level[i.fd] = Depth

Latch(p, i) == \A d \in NetDir : holder[d] = p <=> (i.pc \in Held /\ i.fd = d)

Copy(i) ==
  /\ i.pc \in Working => cur[i.fd] <= i.mem
  /\ i.pc = "dirsync" => cur[i.fd] = i.mem

Temp(i) ==
  /\ i.pc \in {"inspect", "write", "sync", "rename"} <=> i.tmp # "none"
  /\ i.pc = "rename" => i.tmp = "synced"

Good(p, i) == Place(i) /\ Latch(p, i) /\ Copy(i) /\ Temp(i)

(* What a power loss may leave is whole and no older than what a Commit    *)
(* has acknowledged.                                                       *)
Versions ==
  \A d \in NetDir :
    /\ Torn \notin after[d] /\ cur[d] \in after[d]
    /\ \A v \in after[d] : acked[d] <= v

(* The types of everything but the temporary files.                        *)
Types ==
  /\ child \in [Dir -> Dir \cup {NoDir}] /\ settled \in [Dir -> BOOLEAN]
  /\ holder \in [NetDir -> Proc \cup {NoProc}]
  /\ cur \in [NetDir -> 0..MaxVersion \cup {Torn}]
  /\ after \in [NetDir -> SUBSET (0..MaxVersion \cup {Torn})]
  /\ acked \in [NetDir -> 0..MaxVersion] /\ promised \in [NetDir -> 0..MaxVersion]
  /\ budget \in 0..MaxFaults
  /\ inv \in [Proc -> Invocation]

Inv == Types /\ Tree /\ Versions /\ \A p \in Proc : Good(p, inv[p])

(* What is known of a version.                                             *)
LEMMA Whole ==
  ASSUME Inv, NEW d \in NetDir
  PROVE  /\ cur[d] \in 0..MaxVersion /\ cur[d] \in Nat /\ cur[d] # Torn
         /\ acked[d] \in Nat /\ acked[d] <= cur[d]
         /\ after[d] \subseteq 0..MaxVersion /\ d \in Dir
<1>1. after[d] \in SUBSET (0..MaxVersion \cup {Torn}) /\ acked[d] \in 0..MaxVersion
  BY DEF Inv, Types
<1>2. Torn \notin after[d] /\ cur[d] \in after[d] /\ acked[d] <= cur[d]
  BY DEF Inv, Versions
<1>3. QED  BY <1>1, <1>2, StateFileAssumption DEF NetDir

LEMMA InvOf ==
  ASSUME Inv, NEW p \in Proc
  PROVE  /\ inv[p] \in Invocation /\ Good(p, inv[p])
         /\ inv[p].pc \in Steps /\ inv[p].fd \in Dir /\ inv[p].mem \in 0..MaxVersion
         /\ inv[p].mem \in Nat /\ inv[p].dirty \in BOOLEAN /\ inv[p].failed \in BOOLEAN
         /\ Level[inv[p].fd] \in Nat
         /\ inv[p].pc \notin Searching \cup {"idle"} => inv[p].fd \in NetDir
<1>1. inv[p] \in Invocation /\ Good(p, inv[p])  BY DEF Inv, Types
<1>2. inv[p].fd \in Dir /\ inv[p].mem \in 0..MaxVersion  BY <1>1 DEF Invocation
<1>3. inv[p].mem \in Nat  BY <1>2, StateFileAssumption
<1>4. Level[inv[p].fd] \in Nat  BY <1>2, StateFileAssumption
<1>5. inv[p].pc \notin Searching \cup {"idle"} => inv[p].fd \in NetDir
  BY <1>1, <1>2 DEF Good, Place, NetDir
<1>6. QED  BY <1>1, <1>2, <1>3, <1>4, <1>5 DEF Invocation

(* A step of p that changes only p's own state.                            *)
LEMMA OwnStep ==
  ASSUME Inv, NEW p \in Proc, NEW i \in Invocation, Become(p, i), Good(p, i),
         UNCHANGED <<dirVars, holder, fileVars>>, budget' \in 0..MaxFaults
  PROVE  Inv'
<1>1. /\ child' = child /\ settled' = settled /\ holder' = holder /\ cur' = cur
      /\ after' = after /\ acked' = acked /\ promised' = promised
      /\ inv' = [inv EXCEPT ![p] = i]
  BY DEF dirVars, fileVars, Become
<1>2. Types'
  <2>1. inv' \in [Proc -> Invocation]  BY <1>1 DEF Inv, Types
  <2>2. QED  BY <1>1, <2>1 DEF Inv, Types
<1>3. Tree'  BY <1>1 DEF Inv, Tree, Live
<1>4. Versions'  BY <1>1 DEF Inv, Versions
<1>5. ASSUME NEW q \in Proc PROVE Good(q, inv[q])'
  <2>1. Good(q, inv'[q])
    <3>1. inv'[q] = IF q = p THEN i ELSE inv[q]  BY <1>1 DEF Inv, Types
    <3>2. Good(q, inv[q])  BY DEF Inv
    <3>3. QED  BY <3>1, <3>2
  <2>2. QED  BY <1>1, <2>1 DEF Good, Place, Latch, Copy, Temp, Live
<1>6. QED  BY <1>2, <1>3, <1>4, <1>5 DEF Inv

(* A step that ends the invocation of p, and with it what p holds.         *)
LEMMA ReleaseStep ==
  ASSUME Inv, NEW p \in Proc, Become(p, Idle), holder' = Freed(p),
         UNCHANGED <<dirVars, cur, after, acked>>, promised' \in [NetDir -> 0..MaxVersion],
         budget' \in 0..MaxFaults
  PROVE  Inv'
<1>1. /\ child' = child /\ settled' = settled /\ cur' = cur
      /\ after' = after /\ acked' = acked
      /\ inv' = [inv EXCEPT ![p] = Idle]
  BY DEF dirVars, Become
<1>2. \A q \in Proc : inv'[q] = IF q = p THEN Idle ELSE inv[q]
  BY <1>1 DEF Inv, Types
<1>3. /\ holder' \in [NetDir -> Proc \cup {NoProc}]
      /\ \A d \in NetDir : holder'[d] = IF holder[d] = p THEN NoProc ELSE holder[d]
  BY DEF Freed, Inv, Types
<1>4. Idle \in Invocation
  <2>1. 0 \in 0..MaxVersion /\ Root \in Dir  BY StateFileAssumption
  <2>2. QED  BY <2>1 DEF Idle, Invocation, Steps
<1>5. Types'
  <2>1. inv' \in [Proc -> Invocation]  BY <1>1, <1>4 DEF Inv, Types
  <2>2. QED  BY <1>1, <1>3, <2>1 DEF Inv, Types
<1>6. Tree'  BY <1>1 DEF Inv, Tree, Live
<1>7. Versions'  BY <1>1 DEF Inv, Versions
<1>8. ASSUME NEW q \in Proc PROVE Good(q, inv[q])'
  <2>1. Place(inv'[q]) /\ Copy(inv'[q]) /\ Temp(inv'[q])
    <3>1. CASE q = p
      BY <1>2, <3>1 DEF Idle, Place, Copy, Temp, Live, Searching, Working, Held
    <3>2. CASE q # p  BY <1>2, <3>2 DEF Inv, Good
    <3>3. QED  BY <3>1, <3>2
  <2>2. ASSUME NEW d \in NetDir
        PROVE  holder'[d] = q <=> (inv'[q].pc \in Held /\ inv'[q].fd = d)
    <3>1. NoProc \notin Proc  BY StateFileAssumption
    <3>2. CASE q = p  BY <1>2, <1>3, <3>1, <3>2 DEF Idle, Held
    <3>3. CASE q # p
      <4>1. holder[d] = q <=> (inv[q].pc \in Held /\ inv[q].fd = d)
        BY DEF Inv, Good, Latch
      <4>2. QED  BY <1>2, <1>3, <3>1, <3>3, <4>1
    <3>4. QED  BY <3>2, <3>3
  <2>3. Latch(q, inv[q])'  BY <2>2 DEF Latch
  <2>4. QED  BY <1>1, <2>1, <2>3 DEF Good, Place, Copy, Temp, Live
<1>9. QED  BY <1>5, <1>6, <1>7, <1>8 DEF Inv

(* The invocation of p goes on at pc.                                      *)
LEMMA GotoFields ==
  ASSUME NEW i \in Invocation, NEW pc \in Steps, NEW j, j = [i EXCEPT !.pc = pc]
  PROVE  /\ j \in Invocation /\ j.pc = pc /\ j.fd = i.fd /\ j.mem = i.mem
         /\ j.dirty = i.dirty /\ j.failed = i.failed /\ j.tmp = i.tmp
  BY DEF Invocation

LEMMA Typed ==
  ASSUME Inv
  PROVE  budget \in 0..MaxFaults /\ promised \in [NetDir -> 0..MaxVersion]
  BY DEF Inv, Types

(* One fault less.                                                         *)
LEMMA Spent ==
  ASSUME Inv, NEW f, Fault(f)
  PROVE  budget' \in 0..MaxFaults /\ budget' = budget - 1
<1>1. budget \in 0..MaxFaults /\ MaxFaults \in Nat  BY StateFileAssumption DEF Inv, Types
<1>2. QED  BY <1>1 DEF Fault

LEMMA InvokeStep ==
  ASSUME Inv, NEW p \in Proc, Invoke(p)
  PROVE  Inv'
<1>1. PICK i : i = [inv[p] EXCEPT !.pc = "open"]  OBVIOUS
<1>2. /\ i \in Invocation /\ i.pc = "open" /\ i.fd = inv[p].fd /\ i.tmp = inv[p].tmp
      /\ Good(p, inv[p]) /\ inv[p].pc = "idle"
  BY <1>1, InvOf, GotoFields DEF Steps, Invoke, At
<1>3. Good(p, i)
  <2>1. inv[p].fd = Root /\ inv[p].tmp = "none" /\ Live(inv[p].fd)
    BY <1>2 DEF Good, Place, Temp
  <2>2. Level[Root] < Depth  BY StateFileAssumption
  <2>3. Latch(p, i)  BY <1>2 DEF Good, Latch, Held
  <2>4. QED  BY <1>2, <2>1, <2>2, <2>3 DEF Good, Place, Copy, Temp, Searching, Working, Held
<1>4. Become(p, i) /\ UNCHANGED <<dirVars, holder, fileVars, budget>>
  BY <1>1 DEF Invoke, Goto, faultVars
<1>5. QED  BY <1>2, <1>3, <1>4, Typed, OwnStep

LEMMA OpenStep ==
  ASSUME Inv, NEW p \in Proc, Open(p)
  PROVE  Inv'
<1> DEFINE next == child[Fd(p)]
<1>1. /\ inv[p] \in Invocation /\ Good(p, inv[p]) /\ inv[p].pc = "open" /\ Fd(p) \in Dir
      /\ inv[p].fd = Fd(p) /\ inv[p].tmp = "none" /\ Level[Fd(p)] < Depth
      /\ Level[Fd(p)] \in Nat
  BY InvOf DEF Open, At, Fd, Good, Temp, Place, Searching
<1>2. /\ UNCHANGED <<dirVars, holder, fileVars, budget>>
      /\ IF next = NoDir THEN Goto(p, "mkdir")
         ELSE Become(p, [inv[p] EXCEPT !.fd = next,
                                       !.pc = IF Level[next] = Depth THEN "lock" ELSE "open"])
  BY DEF Open, faultVars
<1>3. \A d \in NetDir : holder[d] # p  BY <1>1 DEF Good, Latch, Held
<1>4. CASE next = NoDir
  <2>1. PICK i : i = [inv[p] EXCEPT !.pc = "mkdir"]  OBVIOUS
  <2>2. i \in Invocation /\ i.pc = "mkdir" /\ i.fd = Fd(p) /\ i.tmp = "none"
    BY <1>1, <2>1, GotoFields DEF Steps
  <2>3. Good(p, i)
    BY <1>1, <1>3, <2>2 DEF Good, Place, Latch, Copy, Temp, Searching, Working, Held
  <2>4. Become(p, i)  BY <1>2, <1>4, <2>1 DEF Goto
  <2>5. QED  BY <1>2, <2>2, <2>3, <2>4, Typed, OwnStep
<1>5. CASE next # NoDir
  <2>1. next \in Dir /\ Level[next] = Level[Fd(p)] + 1 /\ Live(next)
    BY <1>1, <1>5 DEF Inv, Tree, Types, Live
  <2>2. Level[next] = Depth \/ Level[next] < Depth
    BY <1>1, <2>1, StateFileAssumption
  <2>3. PICK pc \in {"lock", "open"} : pc = IF Level[next] = Depth THEN "lock" ELSE "open"
    OBVIOUS
  <2>4. PICK i : i = [inv[p] EXCEPT !.fd = next, !.pc = pc]  OBVIOUS
  <2>5. i \in Invocation /\ i.pc = pc /\ i.fd = next /\ i.tmp = "none"
    BY <1>1, <2>1, <2>3, <2>4 DEF Invocation, Steps
  <2>6. Place(i)  BY <2>1, <2>2, <2>3, <2>5 DEF Place, Searching
  <2>7. Latch(p, i) /\ Copy(i) /\ Temp(i)
    BY <1>3, <2>3, <2>5 DEF Latch, Copy, Temp, Working, Held
  <2>8. Become(p, i)  BY <1>2, <1>5, <2>3, <2>4
  <2>9. QED  BY <1>2, <2>5, <2>6, <2>7, <2>8, Typed, OwnStep DEF Good
<1>6. QED  BY <1>4, <1>5

(* mkdirat gives the path one directory more; nobody loses his.            *)
LEMMA MkDirStep ==
  ASSUME Inv, NEW p \in Proc, MkDir(p)
  PROVE  Inv'
<1>1. /\ inv[p] \in Invocation /\ Good(p, inv[p]) /\ inv[p].pc = "mkdir" /\ Fd(p) \in Dir
      /\ inv[p].fd = Fd(p) /\ inv[p].tmp = "none" /\ Level[Fd(p)] < Depth /\ Live(Fd(p))
      /\ Level[Fd(p)] \in Nat
  BY InvOf DEF MkDir, At, Fd, Good, Temp, Place, Searching
<1>2. PICK i : i = [inv[p] EXCEPT !.pc = "open"]  OBVIOUS
<1>3. i \in Invocation /\ i.pc = "open" /\ i.fd = Fd(p) /\ i.tmp = "none"
  BY <1>1, <1>2, GotoFields DEF Steps
<1>4. Good(p, i)
  BY <1>1, <1>3 DEF Good, Place, Latch, Copy, Temp, Searching, Working, Held
<1>5. /\ holder' = holder /\ cur' = cur /\ after' = after /\ acked' = acked
      /\ promised' = promised /\ budget' = budget
      /\ Become(p, i)
  BY <1>2 DEF MkDir, Goto, fileVars, faultVars
<1>6. CASE UNCHANGED dirVars
  <2>1. UNCHANGED <<dirVars, holder, fileVars>>  BY <1>5, <1>6 DEF fileVars
  <2>2. QED  BY <1>3, <1>4, <1>5, <2>1, Typed, OwnStep
<1>7. CASE /\ child[Fd(p)] = NoDir
           /\ \E d \in {e \in Dir : Level[e] = Level[Fd(p)] + 1 /\ Fresh(e)} :
                /\ child' = [child EXCEPT ![Fd(p)] = d]
                /\ settled' = [settled EXCEPT ![Fd(p)] = FALSE]
  <2>1. PICK d \in Dir : /\ Level[d] = Level[Fd(p)] + 1
                         /\ child' = [child EXCEPT ![Fd(p)] = d]
                         /\ settled' = [settled EXCEPT ![Fd(p)] = FALSE]
    BY <1>7
  <2>2. child' \in [Dir -> Dir \cup {NoDir}]
        /\ \A e \in Dir : child'[e] = IF e = Fd(p) THEN d ELSE child[e]
    BY <1>1, <2>1 DEF Inv, Types
  <2>3. ASSUME NEW e \in Dir PROVE Live(e)' <=> Live(e) \/ e = d
    BY <1>1, <1>7, <2>2, StateFileAssumption DEF Live
  <2>4. \A q \in Proc : inv'[q] = IF q = p THEN i ELSE inv[q]
    BY <1>5 DEF Become, Inv, Types
  <2>5. Types'
    <3>1. inv' \in [Proc -> Invocation]  BY <1>3, <1>5 DEF Become, Inv, Types
    <3>2. settled' \in [Dir -> BOOLEAN]  BY <2>1 DEF Inv, Types
    <3>3. QED  BY <1>5, <2>2, <3>1, <3>2 DEF Inv, Types
  <2>6. Tree'
    <3>1. ASSUME NEW e \in Dir, child'[e] # NoDir
          PROVE  Live(e)' /\ Level[child'[e]] = Level[e] + 1
      <4>1. CASE e = Fd(p)  BY <1>1, <2>1, <2>2, <2>3, <4>1
      <4>2. CASE e # Fd(p)  BY <2>2, <2>3, <3>1, <4>2 DEF Inv, Tree
      <4>3. QED  BY <4>1, <4>2
    <3>2. ASSUME NEW e \in Dir, Live(e), Level[e] = Level[d] PROVE FALSE
      <4>1. Level[e] \in Nat /\ Level[e] = Level[Fd(p)] + 1  BY <2>1, <3>2, StateFileAssumption
      <4>2. e # Root  BY <1>1, <4>1, StateFileAssumption
      <4>3. PICK g \in Dir : child[g] = e  BY <3>2, <4>2 DEF Live
      <4>4. Live(g) /\ Level[e] = Level[g] + 1 /\ Level[g] \in Nat
        BY <4>3, StateFileAssumption DEF Inv, Tree
      <4>5. Level[g] = Level[Fd(p)]  BY <1>1, <4>1, <4>4
      <4>6. g = Fd(p)  BY <1>1, <4>4, <4>5 DEF Inv, Tree
      <4>7. QED  BY <1>7, <4>3, <4>6, StateFileAssumption
    <3>3. ASSUME NEW e \in Dir, NEW f \in Dir, Live(e)', Live(f)', Level[e] = Level[f]
          PROVE  e = f
      <4>1. (Live(e) \/ e = d) /\ (Live(f) \/ f = d)  BY <2>3, <3>3
      <4>2. CASE Live(e) /\ Live(f)  BY <3>3, <4>2 DEF Inv, Tree
      <4>3. CASE ~(Live(e) /\ Live(f))  BY <3>2, <3>3, <4>1, <4>3
      <4>4. QED  BY <4>2, <4>3
    <3>4. QED  BY <3>1, <3>3 DEF Tree
  <2>7. Versions'  BY <1>5 DEF Inv, Versions
  <2>8. ASSUME NEW q \in Proc PROVE Good(q, inv[q])'
    <3>1. Good(q, inv'[q])  BY <1>4, <2>4 DEF Inv
    <3>2. inv'[q].fd \in Dir  BY <1>1, <1>3, <2>4, InvOf
    <3>3. Place(inv[q])'  BY <2>3, <3>1, <3>2 DEF Good, Place
    <3>4. QED  BY <1>5, <3>1, <3>3 DEF Good, Latch, Copy, Temp
  <2>9. QED  BY <2>5, <2>6, <2>7, <2>8 DEF Inv
<1>8. QED  BY <1>6, <1>7 DEF MkDir

(* The flock.                                                              *)
LEMMA LockStep ==
  ASSUME Inv, NEW p \in Proc, Lock(p)
  PROVE  Inv'
<1>1. /\ inv[p] \in Invocation /\ Good(p, inv[p]) /\ inv[p].pc = "lock"
      /\ inv[p].fd = Fd(p) /\ inv[p].tmp = "none" /\ Fd(p) \in NetDir
      /\ holder[Fd(p)] = NoProc /\ Live(Fd(p)) /\ Level[Fd(p)] = Depth
  BY InvOf DEF Lock, At, Fd, Good, Temp, Place, Searching
<1>2. PICK i : i = [inv[p] EXCEPT !.pc = "load"]  OBVIOUS
<1>3. i \in Invocation /\ i.pc = "load" /\ i.fd = Fd(p) /\ i.tmp = "none"
  BY <1>1, <1>2, GotoFields DEF Steps
<1>4. /\ child' = child /\ settled' = settled /\ cur' = cur /\ after' = after
      /\ acked' = acked /\ promised' = promised /\ budget' = budget
      /\ holder' = [holder EXCEPT ![Fd(p)] = p] /\ Become(p, i)
  BY <1>2 DEF Lock, Goto, dirVars, fileVars, faultVars
<1>5. \A q \in Proc : inv'[q] = IF q = p THEN i ELSE inv[q]
  BY <1>4 DEF Become, Inv, Types
<1>6. /\ holder' \in [NetDir -> Proc \cup {NoProc}]
      /\ \A d \in NetDir : holder'[d] = IF d = Fd(p) THEN p ELSE holder[d]
  BY <1>1, <1>4 DEF Inv, Types
<1>7. Types'
  <2>1. inv' \in [Proc -> Invocation]  BY <1>3, <1>4 DEF Become, Inv, Types
  <2>2. QED  BY <1>4, <1>6, <2>1 DEF Inv, Types
<1>8. Tree' /\ Versions'  BY <1>4 DEF Inv, Tree, Live, Versions
<1>9. ASSUME NEW q \in Proc PROVE Good(q, inv[q])'
  <2>1. Place(inv'[q]) /\ Copy(inv'[q]) /\ Temp(inv'[q])
    <3>1. CASE q = p
      BY <1>1, <1>3, <1>5, <3>1 DEF Place, Copy, Temp, Searching, Working
    <3>2. CASE q # p  BY <1>5, <3>2 DEF Inv, Good
    <3>3. QED  BY <3>1, <3>2
  <2>2. ASSUME NEW d \in NetDir
        PROVE  holder'[d] = q <=> (inv'[q].pc \in Held /\ inv'[q].fd = d)
    <3>0. holder[d] = q <=> (inv[q].pc \in Held /\ inv[q].fd = d)
      BY DEF Inv, Good, Latch
    <3>1. NoProc \notin Proc  BY StateFileAssumption
    <3>2. CASE q = p  BY <1>1, <1>3, <1>5, <1>6, <3>0, <3>2 DEF Held
    <3>3. CASE q # p  BY <1>1, <1>5, <1>6, <3>0, <3>1, <3>3
    <3>4. QED  BY <3>2, <3>3
  <2>3. Latch(q, inv[q])'  BY <2>2 DEF Latch
  <2>4. QED  BY <1>4, <2>1, <2>3 DEF Good, Place, Copy, Temp, Live
<1>10. QED  BY <1>7, <1>8, <1>9 DEF Inv

(* Under the lock an invocation stays where it is.                         *)
LEMMA Stays ==
  ASSUME Inv, NEW p \in Proc, inv[p].pc \in Held, NEW i \in Invocation, i.pc \in Held,
         i.fd = inv[p].fd, Copy(i), Temp(i)
  PROVE  Good(p, i)
<1>1. Place(inv[p]) /\ Latch(p, inv[p])  BY InvOf DEF Good
<1>2. Place(i)  BY <1>1 DEF Place, Held, Searching
<1>3. Latch(p, i)  BY <1>1 DEF Latch
<1>4. QED  BY <1>2, <1>3 DEF Good

LEMMA LoadStep ==
  ASSUME Inv, NEW p \in Proc, Load(p)
  PROVE  Inv'
<1>1. /\ inv[p] \in Invocation /\ inv[p].pc = "load" /\ inv[p].tmp = "none"
      /\ inv[p].fd = Fd(p) /\ Fd(p) \in NetDir
  BY InvOf DEF Load, At, Fd, Good, Temp, Searching
<1>2. cur[Fd(p)] \in 0..MaxVersion /\ cur[Fd(p)] \in Nat  BY <1>1, Whole
<1>3. PICK i : i = [inv[p] EXCEPT !.pc = "callback", !.mem = cur[Fd(p)]]  OBVIOUS
<1>4. i \in Invocation /\ i.pc = "callback" /\ i.mem = cur[Fd(p)] /\ i.fd = Fd(p)
      /\ i.tmp = "none"
  BY <1>1, <1>2, <1>3 DEF Invocation, Steps
<1>5. Copy(i) /\ Temp(i)  BY <1>2, <1>4 DEF Copy, Temp
<1>6. Good(p, i)  BY <1>1, <1>4, <1>5, Stays DEF Held
<1>7. Become(p, i) /\ UNCHANGED <<dirVars, holder, fileVars, budget>>
  BY <1>3 DEF Load, faultVars
<1>8. QED  BY <1>4, <1>6, <1>7, Typed, OwnStep

LEMMA EarlyReturnStep ==
  ASSUME Inv, NEW p \in Proc, EarlyReturn(p)
  PROVE  Inv'
<1>1. budget' \in 0..MaxFaults  BY Spent DEF EarlyReturn
<1>2. /\ UNCHANGED <<dirVars, cur, after, acked>> /\ promised' = promised
      /\ Become(p, Idle) /\ holder' = Freed(p)
  BY DEF EarlyReturn, fileVars
<1>3. QED  BY <1>1, <1>2, Typed, ReleaseStep

LEMMA ModifyStep ==
  ASSUME Inv, NEW p \in Proc, Modify(p)
  PROVE  Inv'
<1>1. /\ inv[p] \in Invocation /\ inv[p].pc = "callback" /\ inv[p].tmp = "none"
      /\ inv[p].fd = Fd(p) /\ Fd(p) \in NetDir /\ inv[p].mem \in Nat
      /\ cur[Fd(p)] <= inv[p].mem /\ inv[p].mem < MaxVersion
  BY InvOf DEF Modify, At, Fd, Good, Temp, Copy, Searching, Working, Held
<1>2. PICK n \in Nat : n = inv[p].mem + 1  BY <1>1
<1>3. n \in 0..MaxVersion /\ cur[Fd(p)] <= n
  BY <1>1, <1>2, Whole, StateFileAssumption
<1>4. PICK i : i = [inv[p] EXCEPT !.mem = n, !.dirty = TRUE]  OBVIOUS
<1>5. i \in Invocation /\ i.pc = "callback" /\ i.mem = n /\ i.fd = Fd(p) /\ i.tmp = "none"
  BY <1>1, <1>3, <1>4 DEF Invocation
<1>6. Copy(i) /\ Temp(i)  BY <1>3, <1>5 DEF Copy, Temp
<1>7. Good(p, i)  BY <1>1, <1>5, <1>6, Stays DEF Held
<1>8. Become(p, i) /\ UNCHANGED <<dirVars, holder, fileVars, budget>>
  BY <1>2, <1>4 DEF Modify, faultVars
<1>9. QED  BY <1>5, <1>7, <1>8, Typed, OwnStep

LEMMA CommitStep ==
  ASSUME Inv, NEW p \in Proc, Commit(p)
  PROVE  Inv'
<1>1. /\ inv[p] \in Invocation /\ inv[p].pc = "callback" /\ inv[p].tmp = "none"
      /\ cur[inv[p].fd] <= inv[p].mem
  BY InvOf DEF Commit, At, Good, Temp, Copy, Working, Held
<1>2. PICK i : i = [inv[p] EXCEPT !.pc = "create"]  OBVIOUS
<1>3. i \in Invocation /\ i.pc = "create" /\ i.fd = inv[p].fd /\ i.tmp = "none"
      /\ i.mem = inv[p].mem
  BY <1>1, <1>2, GotoFields DEF Steps
<1>4. Copy(i) /\ Temp(i)  BY <1>1, <1>3 DEF Copy, Temp
<1>5. Good(p, i)  BY <1>1, <1>3, <1>4, Stays DEF Held
<1>6. Become(p, i) /\ UNCHANGED <<dirVars, holder, fileVars, budget>>
  BY <1>2 DEF Commit, Goto, faultVars
<1>7. QED  BY <1>3, <1>5, <1>6, Typed, OwnStep

LEMMA PrepareStep ==
  ASSUME Inv, NEW p \in Proc, NEW from \in {"inspect", "write", "sync"},
         NEW to \in {"write", "sync", "rename"},
         NEW tmp \in {"new", "written", "synced"}, to = "rename" => tmp = "synced",
         Prepare(p, from, to, tmp)
  PROVE  Inv'
<1>1. /\ inv[p] \in Invocation /\ inv[p].pc = from /\ cur[inv[p].fd] <= inv[p].mem
  BY InvOf DEF Prepare, At, Good, Copy, Working, Held
<1>2. PICK i : i = [inv[p] EXCEPT !.pc = to, !.tmp = tmp]  OBVIOUS
<1>3. i \in Invocation /\ i.pc = to /\ i.fd = inv[p].fd /\ i.tmp = tmp /\ i.mem = inv[p].mem
  BY <1>1, <1>2 DEF Invocation, Steps
<1>4. Copy(i) /\ Temp(i)  BY <1>1, <1>3 DEF Copy, Temp
<1>5. Good(p, i)  BY <1>1, <1>3, <1>4, Stays DEF Held
<1>6. Become(p, i) /\ UNCHANGED <<dirVars, holder, fileVars, budget>>
  BY <1>2 DEF Prepare, faultVars
<1>7. QED  BY <1>3, <1>5, <1>6, Typed, OwnStep

(* A Commit that fails puts the invocation back into its callback.         *)
LEMMA BackStep ==
  ASSUME Inv, NEW p \in Proc,
         inv[p].pc \in {"create", "inspect", "write", "sync", "rename", "dirsync"},
         NEW i, i = [inv[p] EXCEPT !.pc = "callback", !.failed = TRUE, !.tmp = "none"],
         Become(p, i), UNCHANGED <<dirVars, holder, fileVars>>,
         budget' \in 0..MaxFaults
  PROVE  Inv'
<1>1. inv[p] \in Invocation /\ cur[inv[p].fd] <= inv[p].mem
  BY InvOf DEF Good, Copy, Working, Held
<1>2. i \in Invocation /\ i.pc = "callback" /\ i.fd = inv[p].fd /\ i.tmp = "none"
      /\ i.mem = inv[p].mem
  BY <1>1 DEF Invocation, Steps
<1>3. Copy(i) /\ Temp(i)  BY <1>1, <1>2 DEF Copy, Temp
<1>4. Good(p, i)  BY <1>1, <1>2, <1>3, Stays DEF Held
<1>5. QED  BY <1>2, <1>4, OwnStep

LEMMA CommitFailsStep ==
  ASSUME Inv, NEW p \in Proc, CommitFails(p)
  PROVE  Inv'
<1>1. PICK i : i = [inv[p] EXCEPT !.pc = "callback", !.failed = TRUE, !.tmp = "none"]
  OBVIOUS
<1>2. /\ inv[p].pc \in {"create", "inspect", "write", "sync", "rename", "dirsync"}
      /\ Become(p, i) /\ UNCHANGED <<dirVars, holder, fileVars>>
  BY <1>1 DEF CommitFails
<1>3. budget' \in 0..MaxFaults
  <2>1. budget \in 0..MaxFaults /\ MaxFaults \in Nat  BY Typed, StateFileAssumption
  <2>2. CASE Fault("write")  BY <2>2, Spent
  <2>3. CASE budget > 1 /\ budget' = budget - 2  BY <2>1, <2>3
  <2>4. QED  BY <2>2, <2>3 DEF CommitFails
<1>4. QED  BY <1>1, <1>2, <1>3, BackStep

LEMMA InspectFailsStep ==
  ASSUME Inv, NEW p \in Proc, InspectFails(p)
  PROVE  Inv'
<1>1. PICK i : i = [inv[p] EXCEPT !.pc = "callback", !.failed = TRUE, !.tmp = "none"]
  OBVIOUS
<1>2. /\ inv[p].pc = "inspect"
      /\ Become(p, i) /\ UNCHANGED <<dirVars, holder, fileVars>>
  BY <1>1 DEF InspectFails, At
<1>3. budget' \in 0..MaxFaults  BY Spent DEF InspectFails
<1>4. QED  BY <1>1, <1>2, <1>3, BackStep

(* The temporary file appears; the file and the lock do not change.        *)
LEMMA CreateStep ==
  ASSUME Inv, NEW p \in Proc, Create(p)
  PROVE  Inv'
<1>1. /\ inv[p] \in Invocation /\ inv[p].pc = "create" /\ cur[inv[p].fd] <= inv[p].mem
  BY InvOf DEF Create, At, Good, Copy, Working, Held
<1>2. PICK i : i = [inv[p] EXCEPT !.pc = "inspect", !.tmp = "new"]  OBVIOUS
<1>3. /\ i \in Invocation /\ i.pc = "inspect" /\ i.fd = inv[p].fd /\ i.tmp = "new"
      /\ i.mem = inv[p].mem
  BY <1>1, <1>2 DEF Invocation, Steps
<1>4. Copy(i) /\ Temp(i)  BY <1>1, <1>3 DEF Copy, Temp
<1>5. Good(p, i)  BY <1>1, <1>3, <1>4, Stays DEF Held
<1>6. Become(p, i) /\ UNCHANGED <<dirVars, holder, fileVars, budget>>
  BY <1>2 DEF Create, faultVars
<1>7. QED  BY <1>3, <1>5, <1>6, Typed, OwnStep

LEMMA DirSyncFailsStep ==
  ASSUME Inv, NEW p \in Proc, DirSyncFails(p)
  PROVE  Inv'
<1>1. inv[p] \in Invocation /\ inv[p].pc = "dirsync" /\ inv[p].tmp = "none"
  BY InvOf DEF DirSyncFails, At, Good, Temp
<1>2. PICK i : i = [inv[p] EXCEPT !.pc = "callback", !.failed = TRUE]  OBVIOUS
<1>3. i = [inv[p] EXCEPT !.pc = "callback", !.failed = TRUE, !.tmp = "none"]
  BY <1>1, <1>2 DEF Invocation
<1>4. Become(p, i) /\ UNCHANGED <<dirVars, holder, fileVars>>
  BY <1>2 DEF DirSyncFails
<1>5. budget' \in 0..MaxFaults  BY Spent DEF DirSyncFails
<1>6. QED  BY <1>1, <1>3, <1>4, <1>5, Typed, BackStep

(* Where an invocation in a Commit stands.                                 *)
LEMMA InCommit ==
  ASSUME Inv, NEW p \in Proc, inv[p].pc \in {"rename", "dirsync"}
  PROVE  /\ inv[p] \in Invocation /\ inv[p].fd = Fd(p) /\ Fd(p) \in NetDir
         /\ holder[Fd(p)] = p /\ inv[p].mem \in 0..MaxVersion /\ inv[p].mem \in Nat
         /\ cur[Fd(p)] <= inv[p].mem
         /\ inv[p].pc = "dirsync" => cur[Fd(p)] = inv[p].mem /\ inv[p].tmp = "none"
         /\ inv[p].pc = "rename" => inv[p].tmp = "synced"
         /\ \A q \in Proc : q # p /\ inv[q].pc \in Held => inv[q].fd # Fd(p)
<1>1. /\ inv[p] \in Invocation /\ inv[p].fd = Fd(p) /\ Fd(p) \in NetDir
      /\ inv[p].mem \in 0..MaxVersion /\ inv[p].mem \in Nat /\ Good(p, inv[p])
  BY InvOf DEF Fd, Searching
<1>2. holder[Fd(p)] = p  BY <1>1 DEF Good, Latch, Held
<1>3. ASSUME NEW q \in Proc, q # p, inv[q].pc \in Held PROVE inv[q].fd # Fd(p)
  BY <1>1, <1>2, <1>3 DEF Inv, Good, Latch
<1>4. QED  BY <1>1, <1>2, <1>3 DEF Good, Copy, Temp, Working, Held

(* A step of the holder that changes his file.                             *)
LEMMA FileChange ==
  ASSUME Inv, NEW p \in Proc, inv[p].pc \in {"rename", "dirsync"},
         NEW i \in Invocation, Become(p, i), i.pc \in Held, i.fd = Fd(p), Temp(i),
         i.pc \in Working => cur'[Fd(p)] <= i.mem,
         i.pc = "dirsync" => cur'[Fd(p)] = i.mem,
         UNCHANGED <<dirVars, holder, promised, budget>>,
         cur' \in [NetDir -> 0..MaxVersion],
         after' \in [NetDir -> SUBSET (0..MaxVersion)], acked' \in [NetDir -> 0..MaxVersion],
         \A d \in NetDir \ {Fd(p)} :
           cur'[d] = cur[d] /\ after'[d] = after[d] /\ acked'[d] = acked[d],
         cur'[Fd(p)] \in after'[Fd(p)],
         \A v \in after'[Fd(p)] : acked'[Fd(p)] <= v
  PROVE  Inv'
<1>1. /\ child' = child /\ settled' = settled /\ holder' = holder /\ promised' = promised
      /\ budget' = budget
  BY DEF dirVars, faultVars
<1>2. \A q \in Proc : inv'[q] = IF q = p THEN i ELSE inv[q]
  BY DEF Become, Inv, Types
<1>3. Types'
  <2>1. inv' \in [Proc -> Invocation]  BY DEF Become, Inv, Types
  <2>2. cur' \in [NetDir -> 0..MaxVersion \cup {Torn}]  OBVIOUS
  <2>3. after' \in [NetDir -> SUBSET (0..MaxVersion \cup {Torn})]  OBVIOUS
  <2>4. QED  BY <1>1, <2>1, <2>2, <2>3 DEF Inv, Types
<1>4. Tree'  BY <1>1 DEF Inv, Tree, Live
<1>5. Versions'
  <2>1. \A d \in NetDir : Torn \notin after'[d]
    BY StateFileAssumption
  <2>2. \A d \in NetDir : cur'[d] \in after'[d] /\ \A v \in after'[d] : acked'[d] <= v
    BY DEF Inv, Versions
  <2>3. QED  BY <2>1, <2>2 DEF Versions
<1>6. ASSUME NEW q \in Proc PROVE Good(q, inv[q])'
  <2>1. CASE q = p
    <3>1. Good(p, inv[p])  BY DEF Inv
    <3>2. Place(i) /\ Latch(p, i)
      <4>1. Place(i)  BY <3>1 DEF Good, Place, Fd, Held, Searching
      <4>2. Latch(p, i)  BY <3>1 DEF Good, Latch, Fd, Held
      <4>3. QED  BY <4>1, <4>2
    <3>3. inv'[q] = i  BY <1>2, <2>1
    <3>4. Place(inv[q])' /\ Latch(q, inv[q])' /\ Temp(inv[q])'
      BY <1>1, <2>1, <3>2, <3>3 DEF Place, Latch, Temp, Live
    <3>5. Copy(inv[q])'  BY <3>3 DEF Copy
    <3>6. QED  BY <3>4, <3>5 DEF Good
  <2>2. CASE q # p
    <3>1. inv'[q] = inv[q] /\ Good(q, inv[q])  BY <1>2, <2>2 DEF Inv
    <3>2. Place(inv[q])' /\ Latch(q, inv[q])' /\ Temp(inv[q])'
      BY <1>1, <3>1 DEF Good, Place, Latch, Temp, Live
    <3>3. Copy(inv[q])'
      <4>1. inv[q].pc \in Working => inv[q].fd \in NetDir \ {Fd(p)}
        BY <2>2, InCommit, InvOf DEF Working, Held, Searching
      <4>2. inv[q].pc = "dirsync" => inv[q].pc \in Working  BY DEF Working, Held
      <4>3. inv[q].pc \in Working => cur'[inv[q].fd] = cur[inv[q].fd]  BY <4>1
      <4>4. QED  BY <3>1, <4>2, <4>3 DEF Good, Copy
    <3>4. QED  BY <3>2, <3>3 DEF Good
  <2>3. QED  BY <2>1, <2>2
<1>7. QED  BY <1>3, <1>4, <1>5, <1>6 DEF Inv

(* What the rename does to the versions: the new file may come back after  *)
(* a power loss as well as the old ones, and none of them is torn.         *)
LEMMA RenameVersions ==
  ASSUME Inv, NEW p \in Proc, Rename(p)
  PROVE  /\ inv[p].pc = "rename" /\ inv[p].mem \in 0..MaxVersion
         /\ cur' \in [NetDir -> 0..MaxVersion] /\ after' \in [NetDir -> SUBSET (0..MaxVersion)]
         /\ cur'[Fd(p)] = inv[p].mem /\ after'[Fd(p)] = after[Fd(p)] \cup {inv[p].mem}
         /\ \A d \in NetDir \ {Fd(p)} : cur'[d] = cur[d] /\ after'[d] = after[d]
<1>1. /\ inv[p].pc = "rename" /\ cur' = [cur EXCEPT ![Fd(p)] = inv[p].mem]
      /\ after' = [after EXCEPT ![Fd(p)] = after[Fd(p)] \cup {inv[p].mem}
                     \cup IF inv[p].tmp = "synced" THEN {} ELSE {Torn}]
  BY DEF Rename, At
<1>2. /\ Fd(p) \in NetDir /\ inv[p].mem \in 0..MaxVersion /\ inv[p].tmp = "synced"
  BY <1>1, InCommit
<1>3. after' = [after EXCEPT ![Fd(p)] = after[Fd(p)] \cup {inv[p].mem}]
  BY <1>1, <1>2
<1>4. \A d \in NetDir : cur[d] \in 0..MaxVersion /\ after[d] \subseteq 0..MaxVersion
  BY Whole
<1>5. DOMAIN cur = NetDir /\ DOMAIN after = NetDir
      /\ cur = [d \in NetDir |-> cur[d]] /\ after = [d \in NetDir |-> after[d]]
  BY DEF Inv, Types
<1>6. QED  BY <1>1, <1>2, <1>3, <1>4, <1>5

LEMMA RenameStep ==
  ASSUME Inv, NEW p \in Proc, Rename(p)
  PROVE  Inv'
<1>1. /\ inv[p].pc = "rename" /\ inv[p].mem \in 0..MaxVersion
      /\ cur' \in [NetDir -> 0..MaxVersion] /\ after' \in [NetDir -> SUBSET (0..MaxVersion)]
      /\ cur'[Fd(p)] = inv[p].mem /\ after'[Fd(p)] = after[Fd(p)] \cup {inv[p].mem}
      /\ \A d \in NetDir \ {Fd(p)} : cur'[d] = cur[d] /\ after'[d] = after[d]
  BY RenameVersions
<1>2. /\ inv[p] \in Invocation /\ inv[p].fd = Fd(p) /\ Fd(p) \in NetDir
      /\ inv[p].mem \in Nat /\ cur[Fd(p)] <= inv[p].mem
  BY <1>1, InCommit
<1>3. PICK i : i = [inv[p] EXCEPT !.pc = "dirsync", !.tmp = "none"]  OBVIOUS
<1>4. i \in Invocation /\ i.pc = "dirsync" /\ i.tmp = "none" /\ i.fd = Fd(p)
      /\ i.mem = inv[p].mem
  BY <1>2, <1>3 DEF Invocation, Steps
<1>5. /\ Become(p, i) /\ acked' = acked
      /\ UNCHANGED <<dirVars, holder, promised, budget>>
  BY <1>3 DEF Rename, faultVars
<1>6. \A v \in after'[Fd(p)] : acked'[Fd(p)] <= v
  BY <1>1, <1>2, <1>5, Whole DEF Inv, Versions
<1>7. acked' \in [NetDir -> 0..MaxVersion]  BY <1>5 DEF Inv, Types
<1>8. cur'[Fd(p)] <= i.mem /\ cur'[Fd(p)] = i.mem  BY <1>1, <1>2, <1>4
<1>9. \A d \in NetDir \ {Fd(p)} :
        cur'[d] = cur[d] /\ after'[d] = after[d] /\ acked'[d] = acked[d]
  BY <1>1, <1>5
<1>10. QED
  <2>1. i.pc \in Held /\ Temp(i)  BY <1>4 DEF Held, Temp
  <2>2. cur'[Fd(p)] \in after'[Fd(p)]  BY <1>1
  <2>3. QED  BY <1>1, <1>4, <1>5, <1>6, <1>7, <1>8, <1>9, <2>1, <2>2, FileChange

(* The fsync of the directory leaves only the new file.                    *)
LEMMA DirSyncVersions ==
  ASSUME Inv, NEW p \in Proc, DirSync(p)
  PROVE  /\ inv[p].pc = "dirsync" /\ cur' = cur
         /\ after' \in [NetDir -> SUBSET (0..MaxVersion)]
         /\ acked' \in [NetDir -> 0..MaxVersion]
         /\ after'[Fd(p)] = {cur[Fd(p)]} /\ acked'[Fd(p)] = inv[p].mem
         /\ \A d \in NetDir \ {Fd(p)} : after'[d] = after[d] /\ acked'[d] = acked[d]
<1>1. /\ inv[p].pc = "dirsync" /\ cur' = cur
      /\ after' = [after EXCEPT ![Fd(p)] = {cur[Fd(p)]} \cup (after[Fd(p)] \cap {Torn})]
      /\ acked' = [acked EXCEPT ![Fd(p)] = inv[p].mem]
  BY DEF DirSync, At
<1>2. Fd(p) \in NetDir /\ inv[p].mem \in 0..MaxVersion  BY <1>1, InCommit
<1>3. {cur[Fd(p)]} \cup (after[Fd(p)] \cap {Torn}) = {cur[Fd(p)]}
  BY <1>2 DEF Inv, Versions
<1>4. after' = [after EXCEPT ![Fd(p)] = {cur[Fd(p)]}]  BY <1>1, <1>3
<1>5. \A d \in NetDir : cur[d] \in 0..MaxVersion /\ after[d] \subseteq 0..MaxVersion
  BY Whole
<1>6. DOMAIN acked = NetDir /\ DOMAIN after = NetDir /\ acked \in [NetDir -> 0..MaxVersion]
      /\ after = [d \in NetDir |-> after[d]]
  BY DEF Inv, Types
<1>7. QED  BY <1>1, <1>2, <1>4, <1>5, <1>6

LEMMA DirSyncStep ==
  ASSUME Inv, NEW p \in Proc, DirSync(p)
  PROVE  Inv'
<1>1. /\ inv[p].pc = "dirsync" /\ cur' = cur
      /\ after' \in [NetDir -> SUBSET (0..MaxVersion)]
      /\ acked' \in [NetDir -> 0..MaxVersion]
      /\ after'[Fd(p)] = {cur[Fd(p)]} /\ acked'[Fd(p)] = inv[p].mem
      /\ \A d \in NetDir \ {Fd(p)} : after'[d] = after[d] /\ acked'[d] = acked[d]
  BY DirSyncVersions
<1>2. /\ inv[p] \in Invocation /\ inv[p].fd = Fd(p) /\ Fd(p) \in NetDir
      /\ inv[p].mem \in Nat /\ cur[Fd(p)] = inv[p].mem /\ inv[p].tmp = "none"
  BY <1>1, InCommit
<1>3. PICK i : i = [inv[p] EXCEPT !.pc = "callback", !.dirty = FALSE]  OBVIOUS
<1>4. i \in Invocation /\ i.pc = "callback" /\ i.tmp = "none" /\ i.fd = Fd(p)
      /\ i.mem = inv[p].mem
  BY <1>2, <1>3 DEF Invocation, Steps
<1>5. /\ Become(p, i) /\ UNCHANGED <<dirVars, holder, promised, budget>>
  BY <1>3 DEF DirSync, faultVars
<1>6. cur' \in [NetDir -> 0..MaxVersion]
  BY <1>1, Whole DEF Inv, Types
<1>7. \A v \in after'[Fd(p)] : acked'[Fd(p)] <= v  BY <1>1, <1>2
<1>8. cur'[Fd(p)] <= i.mem /\ cur'[Fd(p)] = i.mem  BY <1>1, <1>2, <1>4
<1>9. \A d \in NetDir \ {Fd(p)} :
        cur'[d] = cur[d] /\ after'[d] = after[d] /\ acked'[d] = acked[d]
  BY <1>1
<1>10. QED
  <2>1. i.pc \in Held /\ Temp(i)  BY <1>4 DEF Held, Temp
  <2>2. cur'[Fd(p)] \in after'[Fd(p)]  BY <1>1
  <2>3. QED  BY <1>1, <1>4, <1>5, <1>6, <1>7, <1>8, <1>9, <2>1, <2>2, FileChange

LEMMA EndStep ==
  ASSUME Inv, NEW p \in Proc, Succeed(p) \/ Fail(p) \/ Crash(p)
  PROVE  Inv'
<1>1. /\ UNCHANGED <<dirVars, cur, after, acked>> /\ Become(p, Idle) /\ holder' = Freed(p)
  BY DEF Succeed, Fail, Crash, fileVars
<1>2. promised' \in [NetDir -> 0..MaxVersion]
  <2>1. inv[p].mem \in 0..MaxVersion  BY InvOf
  <2>2. promised' = promised \/ promised' = [promised EXCEPT ![Fd(p)] = inv[p].mem]
    BY DEF Succeed, Fail, Crash, fileVars
  <2>3. QED  BY <2>1, <2>2, Typed
<1>3. budget' \in 0..MaxFaults
  <2>1. CASE Succeed(p) \/ Fail(p)  BY <2>1, Typed DEF Succeed, Fail, faultVars
  <2>2. CASE Crash(p)  BY <2>2, Spent DEF Crash
  <2>3. QED  BY <2>1, <2>2
<1>4. QED  BY <1>1, <1>2, <1>3, ReleaseStep

(* What a power loss leaves of the files.                                  *)
LEMMA PowerLossFiles ==
  ASSUME Inv, PowerLoss
  PROVE  \E cut \in 0..Depth :
           /\ child' = [d \in Dir |-> IF Level[d] >= cut THEN NoDir ELSE child[d]]
           /\ settled' = [d \in Dir |-> Level[d] < cut]
           /\ cur' \in [NetDir -> 0..MaxVersion] /\ acked' \in [NetDir -> 0..MaxVersion]
           /\ promised' \in [NetDir -> 0..MaxVersion]
           /\ \A d \in NetDir : /\ after'[d] = {cur'[d]} /\ acked'[d] <= cur'[d]
                                /\ cur'[d] \in after[d] \/ cur'[d] = 0
           /\ after' \in [NetDir -> SUBSET (0..MaxVersion)]
<1>1. PICK cut \in 0..Depth, left \in [NetDir -> 0..MaxVersion \cup {Torn}] :
        /\ \A d \in NetDir : IF cut < Depth THEN left[d] = 0 ELSE left[d] \in after[d]
        /\ child' = [d \in Dir |-> IF Level[d] >= cut THEN NoDir ELSE child[d]]
        /\ settled' = [d \in Dir |-> Level[d] < cut]
        /\ cur' = left
        /\ after' = [d \in NetDir |-> {left[d]}]
        /\ IF cut < Depth
             THEN acked' = [d \in NetDir |-> 0] /\ promised' = [d \in NetDir |-> 0]
             ELSE UNCHANGED <<acked, promised>>
  BY DEF PowerLoss
<1>2. 0 \in 0..MaxVersion  BY StateFileAssumption
<1>3. \A d \in NetDir : left[d] \in 0..MaxVersion /\ (left[d] \in after[d] \/ left[d] = 0)
  BY <1>1, <1>2, Whole
<1>4. left \in [NetDir -> 0..MaxVersion]  BY <1>3
<1>5. after' \in [NetDir -> SUBSET (0..MaxVersion)]  BY <1>1, <1>3
<1>6. acked' \in [NetDir -> 0..MaxVersion] /\ promised' \in [NetDir -> 0..MaxVersion]
  BY <1>1, <1>2 DEF Inv, Types
<1>7. ASSUME NEW d \in NetDir PROVE acked'[d] <= left[d]
  <2>1. CASE cut < Depth  BY <1>1, <2>1
  <2>2. CASE ~(cut < Depth)  BY <1>1, <2>2 DEF Inv, Versions
  <2>3. QED  BY <2>1, <2>2
<1>8. QED  BY <1>1, <1>3, <1>4, <1>5, <1>6, <1>7

LEMMA PowerLossStep ==
  ASSUME Inv, PowerLoss
  PROVE  Inv'
<1>1. PICK cut \in 0..Depth :
        /\ child' = [d \in Dir |-> IF Level[d] >= cut THEN NoDir ELSE child[d]]
        /\ settled' = [d \in Dir |-> Level[d] < cut]
        /\ cur' \in [NetDir -> 0..MaxVersion] /\ acked' \in [NetDir -> 0..MaxVersion]
        /\ promised' \in [NetDir -> 0..MaxVersion]
        /\ \A d \in NetDir : after'[d] = {cur'[d]} /\ acked'[d] <= cur'[d]
        /\ after' \in [NetDir -> SUBSET (0..MaxVersion)]
  BY PowerLossFiles
<1>2. /\ holder' = [d \in NetDir |-> NoProc] /\ inv' = [p \in Proc |-> Idle]
      /\ budget' \in 0..MaxFaults
  BY Spent DEF PowerLoss
<1>3. Idle \in Invocation
  <2>1. 0 \in 0..MaxVersion /\ Root \in Dir  BY StateFileAssumption
  <2>2. QED  BY <2>1 DEF Idle, Invocation, Steps
<1>4. Types'
  <2>1. child' \in [Dir -> Dir \cup {NoDir}] /\ settled' \in [Dir -> BOOLEAN]
    BY <1>1 DEF Inv, Types
  <2>2. cur' \in [NetDir -> 0..MaxVersion \cup {Torn}]  BY <1>1
  <2>3. after' \in [NetDir -> SUBSET (0..MaxVersion \cup {Torn})]  BY <1>1
  <2>4. holder' \in [NetDir -> Proc \cup {NoProc}] /\ inv' \in [Proc -> Invocation]
    BY <1>2, <1>3
  <2>5. QED  BY <1>1, <1>2, <2>1, <2>2, <2>3, <2>4 DEF Types
<1>5. Tree'
  <2>1. \A d \in Dir : child'[d] # NoDir => child'[d] = child[d] /\ ~(Level[d] >= cut)
    BY <1>1
  <2>2. \A d \in Dir : Live(d)' => Live(d)  BY <2>1, StateFileAssumption DEF Live
  <2>3. ASSUME NEW d \in Dir, child'[d] # NoDir
        PROVE  Live(d)' /\ Level[child'[d]] = Level[d] + 1
    <3>1. Live(d) /\ Level[child[d]] = Level[d] + 1 /\ child'[d] = child[d] /\ Level[d] < cut
      BY <2>1, <2>3, StateFileAssumption DEF Inv, Tree
    <3>2. CASE d = Root  BY <3>1, <3>2 DEF Live
    <3>3. CASE d # Root
      <4>1. PICK e \in Dir : child[e] = d  BY <3>1, <3>3 DEF Live
      <4>2. Level[d] = Level[e] + 1  BY <4>1, StateFileAssumption DEF Inv, Tree
      <4>3. Level[e] < cut  BY <3>1, <4>2, StateFileAssumption
      <4>4. child'[e] = d  BY <1>1, <4>1, <4>3, StateFileAssumption
      <4>5. QED  BY <3>1, <4>4 DEF Live
    <3>4. QED  BY <3>2, <3>3
  <2>4. QED  BY <2>2, <2>3 DEF Inv, Tree
<1>6. Versions'
  <2>1. Torn \notin Nat  BY StateFileAssumption
  <2>2. ASSUME NEW d \in NetDir
        PROVE  Torn \notin after'[d] /\ cur'[d] \in after'[d]
               /\ \A v \in after'[d] : acked'[d] <= v
    BY <1>1, <2>1
  <2>3. QED  BY <2>2 DEF Versions
<1>7. ASSUME NEW p \in Proc PROVE Good(p, inv[p])'
  <2>1. inv'[p] = Idle /\ \A d \in NetDir : holder'[d] # p  BY <1>2, StateFileAssumption
  <2>2. QED
    BY <2>1 DEF Good, Place, Latch, Copy, Temp, Live, Idle, Searching, Working, Held
<1>8. QED  BY <1>4, <1>5, <1>6, <1>7 DEF Inv

LEMMA WriteBackStep ==
  ASSUME Inv, (\E d \in Dir : WriteBackEntry(d)) \/ (\E d \in NetDir : WriteBackFile(d))
  PROVE  Inv'
<1>1. CASE \E d \in Dir : WriteBackEntry(d)
  <2>1. PICK d \in Dir : settled' = [settled EXCEPT ![d] = TRUE]
    BY <1>1 DEF WriteBackEntry
  <2>2. /\ child' = child /\ holder' = holder /\ cur' = cur /\ after' = after
        /\ acked' = acked /\ promised' = promised /\ inv' = inv
        /\ budget' = budget
    BY <1>1 DEF WriteBackEntry, fileVars, faultVars
  <2>3. Types'  BY <2>1, <2>2 DEF Inv, Types
  <2>4. QED
    BY <2>2, <2>3 DEF Inv, Tree, Versions, Good, Place, Latch, Copy, Temp, Live
<1>2. CASE \E d \in NetDir : WriteBackFile(d)
  <2>1. PICK d \in NetDir : after' = [after EXCEPT ![d] = {cur[d]}]
    BY <1>2 DEF WriteBackFile
  <2>2. /\ child' = child /\ settled' = settled /\ holder' = holder /\ cur' = cur
        /\ acked' = acked /\ promised' = promised /\ inv' = inv
        /\ budget' = budget
    BY <1>2 DEF WriteBackFile, dirVars, faultVars
  <2>3. \A e \in NetDir : after'[e] = IF e = d THEN {cur[d]} ELSE after[e]
    BY <2>1 DEF Inv, Types
  <2>4. after' \in [NetDir -> SUBSET (0..MaxVersion \cup {Torn})]
    BY <2>1 DEF Inv, Types
  <2>5. Types'  BY <2>2, <2>4 DEF Inv, Types
  <2>6. Versions'  BY <2>2, <2>3, Whole DEF Inv, Versions
  <2>7. QED
    BY <2>2, <2>5, <2>6 DEF Inv, Tree, Good, Place, Latch, Copy, Temp, Live
<1>3. QED  BY <1>1, <1>2

LEMMA InitInv ==
  ASSUME Init
  PROVE  Inv
<1>1. 0 \in 0..MaxVersion /\ MaxFaults \in 0..MaxFaults /\ Root \in Dir /\ Torn # 0
  BY StateFileAssumption
<1>2. Idle \in Invocation  BY <1>1 DEF Idle, Invocation, Steps
<1>3. Types
  <2>1. inv \in [Proc -> Invocation] /\ holder \in [NetDir -> Proc \cup {NoProc}]
    BY <1>2 DEF Init
  <2>2. child \in [Dir -> Dir \cup {NoDir}] /\ settled \in [Dir -> BOOLEAN]  BY DEF Init
  <2>3. /\ cur \in [NetDir -> 0..MaxVersion \cup {Torn}]
        /\ after \in [NetDir -> SUBSET (0..MaxVersion \cup {Torn})]
        /\ acked \in [NetDir -> 0..MaxVersion] /\ promised \in [NetDir -> 0..MaxVersion]
    BY <1>1 DEF Init
  <2>4. QED  BY <1>1, <2>1, <2>2, <2>3 DEF Init, Types
<1>4. Tree  BY StateFileAssumption DEF Init, Tree, Live
<1>5. Versions  BY <1>1 DEF Init, Versions
<1>6. ASSUME NEW p \in Proc PROVE Good(p, inv[p])
  <2>1. inv[p] = Idle /\ \A d \in NetDir : holder[d] # p  BY StateFileAssumption DEF Init
  <2>2. QED
    BY <2>1 DEF Good, Place, Latch, Copy, Temp, Live, Idle, Searching, Working, Held
<1>7. QED  BY <1>3, <1>4, <1>5, <1>6 DEF Inv

LEMMA NextInv ==
  ASSUME Inv, [Next]_vars
  PROVE  Inv'
<1>1. ASSUME NEW p \in Proc, Opening(p) PROVE Inv'
  BY <1>1, InvokeStep, OpenStep, MkDirStep, LockStep, LoadStep, EarlyReturnStep DEF Opening
<1>2. ASSUME NEW p \in Proc, Committing(p) PROVE Inv'
  <2>1. CASE Inspect(p)  BY <2>1, PrepareStep DEF Inspect
  <2>2. CASE Write(p)  BY <2>2, PrepareStep DEF Write
  <2>3. CASE Sync(p)  BY <2>3, PrepareStep DEF Sync
  <2>4. QED
    BY <1>2, <2>1, <2>2, <2>3, CommitStep, CreateStep, RenameStep, DirSyncStep,
       InspectFailsStep, CommitFailsStep, DirSyncFailsStep DEF Committing
<1>3. ASSUME NEW p \in Proc, Modify(p) \/ Succeed(p) \/ Fail(p) \/ Crash(p) PROVE Inv'
  BY <1>3, ModifyStep, EndStep
<1>4. CASE UNCHANGED vars
  BY <1>4 DEF vars, Inv, Types, Tree, Versions, Good, Place, Latch, Copy, Temp, Live
<1>5. QED  BY <1>1, <1>2, <1>3, <1>4, PowerLossStep, WriteBackStep DEF Next

LEMMA InvAlways == Spec => []Inv
  BY InitInv, NextInv, PTL DEF Spec
-----------------------------------------------------------------------------
(* The temporary files. Only the holder of the lock has one in use, so a   *)
(* directory has at most one, and what is left over is on the toll.        *)

Total == toll.deaths + toll.botched

Accounts ==
  /\ temps \in [NetDir -> Nat] /\ peak \in [NetDir -> Nat]
  /\ toll \in [deaths : Nat, botched : Nat]
  /\ \A d \in NetDir : peak[d] <= 1 + Total
  /\ \A d \in NetDir : InUse(d) <= temps[d] /\ temps[d] <= InUse(d) + Total

(* Who has a temporary file holds the lock.                                *)
LEMMA UserHolds ==
  ASSUME Inv, NEW p \in Proc, inv[p].tmp # "none"
  PROVE  inv[p].fd \in NetDir /\ holder[inv[p].fd] = p
<1>1. inv[p].pc \in {"inspect", "write", "sync", "rename"} /\ Latch(p, inv[p])
  BY InvOf DEF Good, Temp
<1>2. inv[p].fd \in NetDir  BY <1>1, InvOf DEF Searching
<1>3. QED  BY <1>1, <1>2 DEF Latch, Held

(* If the holder has none in use, nobody has.                              *)
LEMMA NoneInUse ==
  ASSUME Inv, NEW p \in Proc, inv[p].tmp = "none", NEW d \in NetDir, holder[d] = p
  PROVE  InUse(d) = 0
  BY UserHolds DEF InUse, Fd

LEMMA OneInUse ==
  ASSUME NEW p \in Proc, inv[p].tmp # "none"
  PROVE  InUse(Fd(p)) = 1
  BY DEF InUse

(* What a step of p does to the files in use: nothing elsewhere, and       *)
(* nothing at all if p has a file before and after it, or neither.         *)
LEMMA UseElsewhere ==
  ASSUME Inv, NEW p \in Proc, NEW i, Become(p, i), NEW d \in NetDir,
         inv[p].fd # d \/ inv[p].tmp = "none", i.fd # d \/ i.tmp = "none"
  PROVE  InUse(d)' = InUse(d)
<1>1. \A q \in Proc : inv'[q] = IF q = p THEN i ELSE inv[q]
  BY DEF Become, Inv, Types
<1>2. QED  BY <1>1 DEF InUse, Fd

LEMMA UseKept ==
  ASSUME Inv, NEW p \in Proc, NEW i, Become(p, i), NEW d \in NetDir,
         i.fd = inv[p].fd, i.tmp = "none" <=> inv[p].tmp = "none"
  PROVE  InUse(d)' = InUse(d)
<1>1. \A q \in Proc : inv'[q] = IF q = p THEN i ELSE inv[q]
  BY DEF Become, Inv, Types
<1>2. QED  BY <1>1 DEF InUse, Fd

(* p gives up its file: none is in use there any more.                     *)
LEMMA UseEnds ==
  ASSUME Inv, NEW p \in Proc, inv[p].tmp # "none", NEW i, Become(p, i), i.tmp = "none",
         NEW d \in NetDir
  PROVE  /\ d = Fd(p) => InUse(d) = 1 /\ InUse(d)' = 0
         /\ d # Fd(p) => InUse(d)' = InUse(d)
<1>1. \A q \in Proc : inv'[q] = IF q = p THEN i ELSE inv[q]
  BY DEF Become, Inv, Types
<1>2. CASE d = Fd(p)
  <2>1. holder[d] = p  BY <1>2, UserHolds DEF Fd
  <2>2. \A q \in Proc \ {p} : inv[q].tmp # "none" => inv[q].fd # d
    BY <2>1, UserHolds
  <2>3. \A q \in Proc : inv'[q].fd = d => inv'[q].tmp = "none"  BY <1>1, <2>2
  <2>4. QED  BY <1>2, <2>3 DEF InUse, Fd
<1>3. CASE d # Fd(p)  BY <1>1, <1>3 DEF InUse, Fd
<1>4. QED  BY <1>2, <1>3

LEMMA UseType ==
  ASSUME NEW d
  PROVE  InUse(d) \in {0, 1}
  BY DEF InUse

(* A fault goes on the toll as what it is.                                 *)
LEMMA TollOf ==
  ASSUME Accounts, NEW fs, toll' = Tolled(fs)
  PROVE  /\ toll' \in [deaths : Nat, botched : Nat] /\ Total \in Nat /\ Total' \in Nat
         /\ Total' >= Total
         /\ fs \cap {"crash", "power", "inspect", "unlink"} # {} => Total' >= Total + 1
<1>1. toll.deaths \in Nat /\ toll.botched \in Nat /\ toll \in [deaths : Nat, botched : Nat]
  BY DEF Accounts
<1>2. /\ toll' \in [deaths : Nat, botched : Nat]
      /\ toll'.deaths = IF fs \cap {"crash", "power"} = {} THEN toll.deaths ELSE toll.deaths + 1
      /\ toll'.botched = IF fs \cap {"inspect", "unlink"} = {} THEN toll.botched
                         ELSE toll.botched + 1
  <2>1. PICK n \in Nat : n = IF fs \cap {"crash", "power"} = {} THEN toll.deaths
                            ELSE toll.deaths + 1
    BY <1>1
  <2>2. PICK m \in Nat : m = IF fs \cap {"inspect", "unlink"} = {} THEN toll.botched
                            ELSE toll.botched + 1
    BY <1>1
  <2>3. toll' = [toll EXCEPT !.deaths = n, !.botched = m]  BY <2>1, <2>2 DEF Tolled
  <2>4. toll' \in [deaths : Nat, botched : Nat] /\ toll'.deaths = n /\ toll'.botched = m
    BY <1>1, <2>3
  <2>5. QED  BY <2>1, <2>2, <2>4
<1>3. fs \cap {"crash", "power", "inspect", "unlink"} # {} =>
        fs \cap {"crash", "power"} # {} \/ fs \cap {"inspect", "unlink"} # {}
  OBVIOUS
<1>4. Total' = toll'.deaths + toll'.botched /\ Total = toll.deaths + toll.botched
  BY DEF Total
<1>5. QED  BY <1>1, <1>2, <1>3, <1>4

LEMMA TollKept ==
  ASSUME Accounts, toll' = toll
  PROVE  toll' \in [deaths : Nat, botched : Nat] /\ Total \in Nat /\ Total' = Total
<1>1. toll \in [deaths : Nat, botched : Nat]  BY DEF Accounts
<1>2. Total \in Nat  BY <1>1 DEF Total
<1>3. Total' = Total  BY DEF Total
<1>4. QED  BY <1>1, <1>2, <1>3

(* The sides of the account, for a step that is put together from them.    *)
LEMMA Balance ==
  ASSUME toll' \in [deaths : Nat, botched : Nat],
         temps' \in [NetDir -> Nat], peak' \in [NetDir -> Nat],
         \A d \in NetDir : /\ peak'[d] <= 1 + Total'
                           /\ InUse(d)' <= temps'[d] /\ temps'[d] <= InUse(d)' + Total'
  PROVE  Accounts'
  BY DEF Accounts

(* A step that leaves temporary files alone and gives up none.             *)
LEMMA QuietStep ==
  ASSUME Inv, Accounts, UNCHANGED tempVars, \A d \in NetDir : InUse(d)' = InUse(d),
         toll' \in [deaths : Nat, botched : Nat], Total \in Nat, Total' \in Nat,
         Total' >= Total
  PROVE  Accounts'
<1>1. temps' = temps /\ peak' = peak  BY DEF tempVars
<1>2. ASSUME NEW d \in NetDir
      PROVE  /\ peak'[d] <= 1 + Total'
             /\ InUse(d)' <= temps'[d] /\ temps'[d] <= InUse(d)' + Total'
  <2>1. /\ temps[d] \in Nat /\ peak[d] \in Nat /\ peak[d] <= 1 + Total
        /\ InUse(d) <= temps[d] /\ temps[d] <= InUse(d) + Total
    BY DEF Accounts
  <2>2. InUse(d)' = InUse(d) /\ InUse(d) \in {0, 1}  BY UseType
  <2>3. QED  BY <1>1, <2>1, <2>2
<1>3. temps' \in [NetDir -> Nat] /\ peak' \in [NetDir -> Nat]  BY <1>1 DEF Accounts
<1>4. QED  BY <1>2, <1>3, Balance

LEMMA QuietSteps ==
  ASSUME Inv, Accounts, NEW p \in Proc,
         \/ Invoke(p) \/ Open(p) \/ MkDir(p) \/ Lock(p) \/ Load(p) \/ EarlyReturn(p)
         \/ Modify(p) \/ Commit(p) \/ Inspect(p) \/ Write(p) \/ Sync(p) \/ DirSyncFails(p)
         \/ Succeed(p) \/ Fail(p)
  PROVE  Accounts'
<1>1. inv[p] \in Invocation /\ Temp(inv[p])  BY InvOf DEF Good
<1>2. UNCHANGED tempVars
  BY DEF Invoke, Open, MkDir, Lock, Load, EarlyReturn, Modify, Commit, Inspect, Write, Sync,
         Prepare, DirSyncFails, Succeed, Fail
<1>3. /\ toll' \in [deaths : Nat, botched : Nat] /\ Total \in Nat /\ Total' \in Nat
      /\ Total' >= Total
  <2>1. CASE EarlyReturn(p) \/ DirSyncFails(p)
    BY <2>1, TollOf DEF EarlyReturn, DirSyncFails, Fault
  <2>2. CASE ~(EarlyReturn(p) \/ DirSyncFails(p))
    <3>1. toll' = toll
      BY <2>2 DEF Invoke, Open, MkDir, Lock, Load, Modify, Commit, Inspect, Write, Sync,
                  Prepare, Succeed, Fail, faultVars
    <3>2. QED  BY <3>1, TollKept
  <2>3. QED  BY <2>1, <2>2
<1>4. ASSUME NEW d \in NetDir PROVE InUse(d)' = InUse(d)
  <2>1. CASE Inspect(p) \/ Write(p) \/ Sync(p)
    <3>1. PICK to \in Steps, tmp \in {"new", "written", "synced"} :
            Become(p, [inv[p] EXCEPT !.pc = to, !.tmp = tmp])
      BY <2>1 DEF Inspect, Write, Sync, Prepare, Steps
    <3>2. PICK i : i = [inv[p] EXCEPT !.pc = to, !.tmp = tmp]  OBVIOUS
    <3>3. i.fd = inv[p].fd /\ i.tmp = tmp  BY <1>1, <3>2 DEF Invocation
    <3>4. inv[p].tmp # "none"
      <4>1. inv[p].pc \in {"inspect", "write", "sync"}
        BY <2>1 DEF Inspect, Write, Sync, Prepare, At
      <4>2. QED  BY <1>1, <4>1 DEF Temp
    <3>5. QED  BY <3>1, <3>2, <3>3, <3>4, UseKept
  <2>2. CASE ~(Inspect(p) \/ Write(p) \/ Sync(p))
    <3>1. inv[p].tmp = "none"
      BY <1>1, <2>2 DEF Temp, At, Invoke, Open, MkDir, Lock, Load, EarlyReturn, Modify,
                        Commit, DirSyncFails, Succeed, Fail
    <3>2. \E i : Become(p, i) /\ i.tmp = "none"
      <4>1. Idle.tmp = "none"  BY DEF Idle
      <4>2. ASSUME NEW pc PROVE [inv[p] EXCEPT !.pc = pc].tmp = "none"
        BY <1>1, <3>1 DEF Invocation
      <4>3. CASE Open(p)
        <5>1. CASE Goto(p, "mkdir")  BY <4>2, <5>1 DEF Goto
        <5>2. CASE ~Goto(p, "mkdir")
          <6>1. PICK next, pc : Become(p, [inv[p] EXCEPT !.fd = next, !.pc = pc])
            BY <4>3, <5>2 DEF Open
          <6>2. [inv[p] EXCEPT !.fd = next, !.pc = pc].tmp = "none"
            BY <1>1, <3>1 DEF Invocation
          <6>3. QED  BY <6>1, <6>2
        <5>3. QED  BY <5>1, <5>2
      <4>4. CASE Load(p) \/ Modify(p) \/ DirSyncFails(p)
        <5>1. ASSUME NEW mem, NEW pc
              PROVE  [inv[p] EXCEPT !.pc = pc, !.mem = mem].tmp = "none"
          BY <1>1, <3>1 DEF Invocation
        <5>2. ASSUME NEW mem
              PROVE  [inv[p] EXCEPT !.mem = mem, !.dirty = TRUE].tmp = "none"
          BY <1>1, <3>1 DEF Invocation
        <5>3. [inv[p] EXCEPT !.pc = "callback", !.failed = TRUE].tmp = "none"
          BY <1>1, <3>1 DEF Invocation
        <5>4. CASE Load(p)  BY <5>1, <5>4 DEF Load
        <5>5. CASE Modify(p)  BY <5>2, <5>5 DEF Modify
        <5>6. CASE DirSyncFails(p)  BY <5>3, <5>6 DEF DirSyncFails
        <5>7. QED  BY <4>4, <5>4, <5>5, <5>6
      <4>5. CASE Invoke(p) \/ MkDir(p) \/ Lock(p) \/ Commit(p)
        BY <4>2, <4>5 DEF Invoke, MkDir, Lock, Commit, Goto
      <4>6. CASE EarlyReturn(p) \/ Succeed(p) \/ Fail(p)
        BY <4>1, <4>6 DEF EarlyReturn, Succeed, Fail
      <4>7. QED  BY <2>2, <4>3, <4>4, <4>5, <4>6
    <3>3. QED  BY <3>1, <3>2, UseElsewhere
  <2>3. QED  BY <2>1, <2>2
<1>5. QED  BY <1>2, <1>3, <1>4, QuietStep

(* The lock is held and nothing was in use before openat makes a file.     *)
LEMMA CreateAccounts ==
  ASSUME Inv, Accounts, NEW p \in Proc, Create(p)
  PROVE  Accounts'
<1>1. PICK i : i = [inv[p] EXCEPT !.pc = "inspect", !.tmp = "new"]  OBVIOUS
<1>2. /\ inv[p].pc = "create" /\ inv[p].tmp = "none" /\ i.fd = Fd(p) /\ i.tmp = "new"
      /\ Fd(p) \in NetDir /\ holder[Fd(p)] = p /\ Become(p, i)
  BY <1>1, InvOf DEF Create, At, Good, Temp, Latch, Held, Searching, Fd, Invocation
<1>3. /\ temps' = [temps EXCEPT ![Fd(p)] = temps[Fd(p)] + 1]
      /\ peak' = [peak EXCEPT ![Fd(p)] = IF temps[Fd(p)] < peak[Fd(p)] THEN peak[Fd(p)]
                                         ELSE temps[Fd(p)] + 1]
      /\ toll' = toll
  BY DEF Create, faultVars
<1>4. toll' \in [deaths : Nat, botched : Nat] /\ Total \in Nat /\ Total' = Total
  BY <1>3, TollKept
<1>5. temps' \in [NetDir -> Nat] /\ peak' \in [NetDir -> Nat]  BY <1>2, <1>3 DEF Accounts
<1>6. ASSUME NEW d \in NetDir
      PROVE  /\ peak'[d] <= 1 + Total'
             /\ InUse(d)' <= temps'[d] /\ temps'[d] <= InUse(d)' + Total'
  <2>1. /\ temps[d] \in Nat /\ peak[d] \in Nat /\ peak[d] <= 1 + Total
        /\ InUse(d) <= temps[d] /\ temps[d] <= InUse(d) + Total
    BY DEF Accounts
  <2>2. CASE d = Fd(p)
    <3>1. InUse(d) = 0  BY <1>2, <2>2, NoneInUse
    <3>2. inv'[p] = i  BY <1>2 DEF Become, Inv, Types
    <3>3. InUse(d)' = 1  BY <1>2, <2>2, <3>2 DEF InUse, Fd
    <3>4. /\ temps'[d] = temps[d] + 1
          /\ peak'[d] = IF temps[d] < peak[d] THEN peak[d] ELSE temps[d] + 1
      BY <1>3, <2>2 DEF Accounts
    <3>5. QED  BY <1>4, <2>1, <3>1, <3>3, <3>4
  <2>3. CASE d # Fd(p)
    <3>1. InUse(d)' = InUse(d)  BY <1>2, <2>3, UseElsewhere DEF Fd
    <3>2. temps'[d] = temps[d] /\ peak'[d] = peak[d]  BY <1>3, <2>3 DEF Accounts
    <3>3. QED  BY <1>4, <2>1, <3>1, <3>2
  <2>4. QED  BY <2>2, <2>3
<1>7. QED  BY <1>4, <1>5, <1>6, Balance

(* The rename and the deferred unlink take the file in use away.           *)
LEMMA RemoveAccounts ==
  ASSUME Inv, Accounts, NEW p \in Proc, inv[p].tmp # "none",
         NEW i, Become(p, i), i.tmp = "none",
         temps' = [temps EXCEPT ![Fd(p)] = temps[Fd(p)] - 1], peak' = peak,
         toll' \in [deaths : Nat, botched : Nat], Total \in Nat, Total' \in Nat,
         Total' >= Total
  PROVE  Accounts'
<1>1. Fd(p) \in NetDir /\ InUse(Fd(p)) = 1  BY UserHolds, OneInUse DEF Fd
<1>2. temps[Fd(p)] \in Nat /\ 1 <= temps[Fd(p)]  BY <1>1 DEF Accounts
<1>3. temps' \in [NetDir -> Nat] /\ peak' \in [NetDir -> Nat]
  <2>1. temps[Fd(p)] - 1 \in Nat  BY <1>2
  <2>2. QED  BY <2>1 DEF Accounts
<1>4. ASSUME NEW d \in NetDir
      PROVE  /\ peak'[d] <= 1 + Total'
             /\ InUse(d)' <= temps'[d] /\ temps'[d] <= InUse(d)' + Total'
  <2>1. /\ temps[d] \in Nat /\ peak[d] \in Nat /\ peak[d] <= 1 + Total
        /\ InUse(d) <= temps[d] /\ temps[d] <= InUse(d) + Total
    BY DEF Accounts
  <2>2. CASE d = Fd(p)
    <3>1. temps'[d] = temps[d] - 1 /\ InUse(d) = 1 /\ InUse(d)' = 0
      BY <1>1, <2>2, UseEnds DEF Accounts
    <3>2. QED  BY <2>1, <3>1
  <2>3. CASE d # Fd(p)
    <3>1. temps'[d] = temps[d] /\ InUse(d)' = InUse(d) /\ InUse(d) \in {0, 1}
      BY <2>3, UseEnds, UseType DEF Accounts
    <3>2. QED  BY <2>1, <3>1
  <2>4. QED  BY <2>2, <2>3
<1>5. QED  BY <1>3, <1>4, Balance

(* A file that is given up but stays is on the toll.                       *)
LEMMA AbandonAccounts ==
  ASSUME Inv, Accounts, NEW p \in Proc, NEW i, Become(p, i), i.tmp = "none",
         UNCHANGED tempVars,
         toll' \in [deaths : Nat, botched : Nat], Total \in Nat, Total' \in Nat,
         Total' >= Total + 1
  PROVE  Accounts'
<1>1. temps' = temps /\ peak' = peak  BY DEF tempVars
<1>2. ASSUME NEW d \in NetDir
      PROVE  /\ peak'[d] <= 1 + Total'
             /\ InUse(d)' <= temps'[d] /\ temps'[d] <= InUse(d)' + Total'
  <2>1. /\ temps[d] \in Nat /\ peak[d] \in Nat /\ peak[d] <= 1 + Total
        /\ InUse(d) <= temps[d] /\ temps[d] <= InUse(d) + Total
    BY DEF Accounts
  <2>2. InUse(d) \in {0, 1} /\ (InUse(d)' = InUse(d) \/ (InUse(d) = 1 /\ InUse(d)' = 0))
    <3>1. CASE inv[p].tmp = "none"  BY <3>1, UseElsewhere, UseType
    <3>2. CASE inv[p].tmp # "none"
      <4>1. d = Fd(p) => InUse(d) = 1 /\ InUse(d)' = 0  BY <3>2, UseEnds
      <4>2. d # Fd(p) => InUse(d)' = InUse(d)  BY <3>2, UseEnds
      <4>3. QED  BY <4>1, <4>2, UseType
    <3>3. QED  BY <3>1, <3>2
  <2>3. QED  BY <1>1, <2>1, <2>2
<1>3. temps' \in [NetDir -> Nat] /\ peak' \in [NetDir -> Nat]  BY <1>1 DEF Accounts
<1>4. QED  BY <1>2, <1>3, Balance

LEMMA RenameAccounts ==
  ASSUME Inv, Accounts, NEW p \in Proc, Rename(p)
  PROVE  Accounts'
<1>1. PICK i : i = [inv[p] EXCEPT !.pc = "dirsync", !.tmp = "none"]  OBVIOUS
<1>2. inv[p] \in Invocation /\ inv[p].tmp = "synced"  BY InCommit DEF Rename, At
<1>3. i.tmp = "none"  BY <1>1, <1>2 DEF Invocation
<1>4. /\ Become(p, i) /\ temps' = [temps EXCEPT ![Fd(p)] = temps[Fd(p)] - 1]
      /\ peak' = peak /\ toll' = toll
  BY <1>1 DEF Rename, faultVars
<1>5. toll' \in [deaths : Nat, botched : Nat] /\ Total \in Nat /\ Total' = Total
  BY <1>4, TollKept
<1>6. Total' \in Nat /\ Total' >= Total  BY <1>5
<1>7. inv[p].tmp # "none"  BY <1>2
<1>8. QED  BY <1>3, <1>4, <1>5, <1>6, <1>7, RemoveAccounts

LEMMA CommitFailsAccounts ==
  ASSUME Inv, Accounts, NEW p \in Proc, CommitFails(p) \/ InspectFails(p)
  PROVE  Accounts'
<1>1. PICK i : i = [inv[p] EXCEPT !.pc = "callback", !.failed = TRUE, !.tmp = "none"]
  OBVIOUS
<1>2. i.tmp = "none" /\ Become(p, i)
  BY <1>1, InvOf DEF Invocation, CommitFails, InspectFails
<1>3. CASE CommitFails(p) /\ Fault("write")
           /\ temps' = IF inv[p].tmp = "none" THEN temps
                       ELSE [temps EXCEPT ![Fd(p)] = temps[Fd(p)] - 1]
  <2>1. peak' = peak /\ toll' = Tolled({"write"})  BY <1>3 DEF CommitFails, Fault
  <2>2. /\ toll' \in [deaths : Nat, botched : Nat] /\ Total \in Nat /\ Total' \in Nat
        /\ Total' >= Total
    BY <2>1, TollOf
  <2>3. CASE inv[p].tmp = "none"
    <3>1. UNCHANGED tempVars  BY <1>3, <2>1, <2>3 DEF tempVars
    <3>2. \A d \in NetDir : InUse(d)' = InUse(d)  BY <1>2, <2>3, UseElsewhere
    <3>3. QED  BY <2>2, <3>1, <3>2, QuietStep
  <2>4. CASE inv[p].tmp # "none"  BY <1>2, <1>3, <2>1, <2>2, <2>4, RemoveAccounts
  <2>5. QED  BY <2>3, <2>4
<1>4. ASSUME UNCHANGED tempVars, NEW fs \in {{"inspect"}, {"unlink"}}, toll' = Tolled(fs)
      PROVE  Accounts'
  <2>1. fs \cap {"crash", "power", "inspect", "unlink"} # {}  BY <1>4
  <2>2. QED  BY <1>2, <1>4, <2>1, TollOf, AbandonAccounts
<1>5. CASE CommitFails(p) /\ temps' = temps /\ toll' = Tolled({"unlink"})
  BY <1>4, <1>5 DEF CommitFails, tempVars
<1>6. CASE InspectFails(p)
  BY <1>4, <1>6 DEF InspectFails, Fault
<1>7. QED  BY <1>3, <1>5, <1>6 DEF CommitFails

LEMMA CrashAccounts ==
  ASSUME Inv, Accounts, NEW p \in Proc, Crash(p)
  PROVE  Accounts'
<1>1. Idle.tmp = "none"  BY DEF Idle
<1>2. Become(p, Idle) /\ UNCHANGED tempVars /\ toll' = Tolled({"crash"})
  BY DEF Crash, Fault
<1>3. QED  BY <1>1, <1>2, TollOf, AbandonAccounts

(* A sync or write-back of the directory settles its entries.              *)
LEMMA SettleAccounts ==
  ASSUME Inv, Accounts, NEW e \in NetDir, temps' = temps,
         peak' = [peak EXCEPT ![e] = temps[e]], toll' = toll,
         \A d \in NetDir : InUse(d)' = InUse(d)
  PROVE  Accounts'
<1>1. toll' \in [deaths : Nat, botched : Nat] /\ Total \in Nat /\ Total' = Total
  BY TollKept
<1>2. temps' \in [NetDir -> Nat] /\ peak' \in [NetDir -> Nat]  BY DEF Accounts
<1>3. ASSUME NEW d \in NetDir
      PROVE  /\ peak'[d] <= 1 + Total'
             /\ InUse(d)' <= temps'[d] /\ temps'[d] <= InUse(d)' + Total'
  <2>1. /\ temps[d] \in Nat /\ peak[d] \in Nat /\ peak[d] <= 1 + Total
        /\ InUse(d) <= temps[d] /\ temps[d] <= InUse(d) + Total
    BY DEF Accounts
  <2>2. peak'[d] = IF d = e THEN temps[d] ELSE peak[d]  BY DEF Accounts
  <2>3. InUse(d)' = InUse(d) /\ InUse(d) \in {0, 1}  BY UseType
  <2>4. QED  BY <1>1, <2>1, <2>2, <2>3
<1>4. QED  BY <1>1, <1>2, <1>3, Balance

LEMMA DirSyncAccounts ==
  ASSUME Inv, Accounts, NEW p \in Proc, DirSync(p)
  PROVE  Accounts'
<1>1. PICK i : i = [inv[p] EXCEPT !.pc = "callback", !.dirty = FALSE]  OBVIOUS
<1>2. /\ inv[p] \in Invocation /\ inv[p].tmp = "none" /\ Fd(p) \in NetDir
  BY InCommit DEF DirSync, At
<1>3. i.tmp = "none" /\ Become(p, i)  BY <1>1, <1>2 DEF Invocation, DirSync
<1>4. \A d \in NetDir : InUse(d)' = InUse(d)  BY <1>2, <1>3, UseElsewhere
<1>5. temps' = temps /\ peak' = [peak EXCEPT ![Fd(p)] = temps[Fd(p)]] /\ toll' = toll
  BY DEF DirSync, faultVars
<1>6. QED  BY <1>2, <1>4, <1>5, SettleAccounts

LEMMA PowerLossAccounts ==
  ASSUME Inv, Accounts, PowerLoss
  PROVE  Accounts'
<1>1. toll' = Tolled({"power"})  BY DEF PowerLoss, Fault
<1>2. /\ toll' \in [deaths : Nat, botched : Nat] /\ Total \in Nat /\ Total' \in Nat
      /\ Total' >= Total + 1
  BY <1>1, TollOf
<1>3. PICK cut \in 0..Depth, n \in [NetDir -> 0..MaxFaults + 1] :
        /\ \A d \in NetDir : n[d] <= IF cut < Depth THEN 0 ELSE peak[d]
        /\ temps' = n /\ peak' = n
  BY DEF PowerLoss
<1>4. \A d \in NetDir : n[d] \in Nat /\ n[d] <= 1 + Total
  <2>1. ASSUME NEW d \in NetDir PROVE n[d] \in Nat /\ n[d] <= 1 + Total
    <3>1. n[d] \in Nat /\ peak[d] \in Nat /\ peak[d] <= 1 + Total
      BY StateFileAssumption DEF Accounts
    <3>2. n[d] <= 0 \/ n[d] <= peak[d]  BY <1>3
    <3>3. QED  BY <1>2, <3>1, <3>2
  <2>2. QED  BY <2>1
<1>5. ASSUME NEW d \in NetDir PROVE InUse(d)' = 0
  <2>1. \A p \in Proc : inv'[p].tmp = "none"  BY DEF PowerLoss, Idle
  <2>2. QED  BY <2>1 DEF InUse
<1>6. temps' \in [NetDir -> Nat] /\ peak' \in [NetDir -> Nat]  BY <1>3, <1>4
<1>7. \A d \in NetDir : /\ peak'[d] <= 1 + Total'
                        /\ InUse(d)' <= temps'[d] /\ temps'[d] <= InUse(d)' + Total'
  BY <1>2, <1>3, <1>4, <1>5
<1>8. QED  BY <1>2, <1>6, <1>7, Balance

LEMMA NextAccounts ==
  ASSUME Inv, Accounts, [Next]_vars
  PROVE  Accounts'
<1>1. ASSUME inv' = inv PROVE \A d \in NetDir : InUse(d)' = InUse(d)
  BY <1>1 DEF InUse, Fd
<1>2. ASSUME NEW d \in Dir, WriteBackEntry(d) PROVE Accounts'
  <2>1. UNCHANGED tempVars /\ toll' = toll /\ inv' = inv
    BY <1>2 DEF WriteBackEntry, faultVars
  <2>2. Total' >= Total  BY <2>1, TollKept
  <2>3. QED  BY <1>1, <2>1, <2>2, TollKept, QuietStep
<1>3. ASSUME NEW d \in NetDir, WriteBackFile(d) PROVE Accounts'
  BY <1>1, <1>3, SettleAccounts DEF WriteBackFile, faultVars
<1>4. CASE UNCHANGED vars
  <2>1. UNCHANGED tempVars /\ toll' = toll /\ inv' = inv  BY <1>4 DEF vars, tempVars
  <2>2. Total' >= Total  BY <2>1, TollKept
  <2>3. QED  BY <1>1, <2>1, <2>2, TollKept, QuietStep
<1>5. ASSUME NEW p \in Proc,
             Opening(p) \/ Modify(p) \/ Committing(p) \/ Succeed(p) \/ Fail(p) \/ Crash(p)
      PROVE  Accounts'
  BY <1>5, QuietSteps, CreateAccounts, RenameAccounts, DirSyncAccounts,
     CommitFailsAccounts, CrashAccounts DEF Opening, Committing
<1>6. QED  BY <1>2, <1>3, <1>4, <1>5, PowerLossAccounts DEF Next

LEMMA AccountsAlways == Spec => []Accounts
<1>1. Init => Accounts
  <2>1. SUFFICES ASSUME Init PROVE Accounts  OBVIOUS
  <2>2. \A d \in NetDir : InUse(d) = 0  BY <2>1 DEF Init, InUse, Idle
  <2>3. Total = 0  BY <2>1 DEF Init, Total
  <2>4. QED  BY <2>1, <2>2, <2>3 DEF Init, Accounts
<1>2. Inv /\ Accounts /\ [Next]_vars => Accounts'  BY NextAccounts
<1>3. QED  BY <1>1, <1>2, InvAlways, PTL DEF Spec
-----------------------------------------------------------------------------
(* The types: whatever an invocation works on is a whole state             *)
(* (store.go:101-150).                                                     *)
THEOREM FileTypeCorrect == Spec => []FileTypeOK
<1>1. Inv /\ Accounts => FileTypeOK  BY DEF Inv, Types, Accounts, FileTypeOK
<1>2. QED  BY <1>1, InvAlways, AccountsAlways, PTL

(* All invocations that have got through to the lock have the same network *)
(* directory open, however many create the path at once (securefs.go:      *)
(* 87-140).                                                                *)
THEOREM OneDirectory == Spec => []FirstInvocationsMeet
<1>1. ASSUME Inv PROVE FirstInvocationsMeet
  <2>1. SUFFICES ASSUME NEW p \in Proc, NEW q \in Proc, Inside(p), Inside(q)
                 PROVE  Fd(p) = Fd(q)
    BY DEF FirstInvocationsMeet
  <2>2. Live(Fd(p)) /\ Level[Fd(p)] = Depth /\ Fd(p) \in Dir
    BY <1>1, <2>1, InvOf DEF Inside, Good, Place, Searching, Fd
  <2>3. Live(Fd(q)) /\ Level[Fd(q)] = Depth /\ Fd(q) \in Dir
    BY <1>1, <2>1, InvOf DEF Inside, Good, Place, Searching, Fd
  <2>4. QED  BY <1>1, <2>2, <2>3 DEF Inv, Tree
<1>2. QED  BY <1>1, InvAlways, PTL

(* No reader finds half a state (state.go:308-309).                        *)
THEOREM NoTornFile == Spec => []FileIsWhole
<1>1. ASSUME Inv PROVE FileIsWhole  BY <1>1, Whole DEF FileIsWhole
<1>2. QED  BY <1>1, InvAlways, PTL

(* What a Commit has acknowledged survives failures and power losses       *)
(* (state.go:344-351).                                                     *)
THEOREM AcknowledgedSurvives == Spec => []AcknowledgedStays
<1>1. ASSUME Inv PROVE AcknowledgedStays  BY <1>1, Whole DEF AcknowledgedStays
<1>2. QED  BY <1>1, InvAlways, PTL

(* Whatever fails, a directory has one temporary file for each death,      *)
(* failed inspection and failed removal, besides the one in use, and none  *)
(* else (state.go:324-330, 344-347).                                       *)
THEOREM LitterIsOnTheToll == Spec => []TempsAccounted
<1>1. ASSUME Accounts PROVE TempsAccounted
  <2>1. toll.deaths \in Nat /\ toll.botched \in Nat  BY <1>1 DEF Accounts
  <2>2. SUFFICES ASSUME NEW d \in NetDir
                 PROVE  InUse(d) <= temps[d]
                        /\ temps[d] <= InUse(d) + toll.deaths + toll.botched
    BY DEF TempsAccounted
  <2>3. temps[d] \in Nat /\ InUse(d) <= temps[d] /\ temps[d] <= InUse(d) + Total
    BY <1>1 DEF Accounts
  <2>4. QED  BY <2>1, <2>3, UseType DEF Total
<1>2. QED  BY <1>1, AccountsAlways, PTL
-----------------------------------------------------------------------------
(* The steps as AtomicFile sees them.                                      *)
Unseen(d) == UNCHANGED <<holder[d], cur[d], after[d]>>

LEMMA UnseenIsStep ==
  ASSUME NEW d \in NetDir, Unseen(d)
  PROVE  FileStep(d)
  BY DEF Unseen, FileStep

LEMMA FreedIsStep ==
  ASSUME Inv, NEW p \in Proc, holder' = Freed(p), cur' = cur, after' = after,
         NEW d \in NetDir
  PROVE  FileStep(d)
<1>1. holder'[d] = IF holder[d] = p THEN NoProc ELSE holder[d]  BY DEF Freed
<1>2. CASE holder[d] = p  BY <1>1, <1>2 DEF FileStep, File!FileNext, File!Free
<1>3. CASE holder[d] # p  BY <1>1, <1>3, UnseenIsStep DEF Unseen
<1>4. QED  BY <1>2, <1>3

LEMMA RenameIsReplace ==
  ASSUME Inv, NEW p \in Proc, Rename(p), NEW d \in NetDir
  PROVE  FileStep(d)
<1>1. /\ inv[p].pc = "rename"
      /\ cur'[Fd(p)] = inv[p].mem /\ after'[Fd(p)] = after[Fd(p)] \cup {inv[p].mem}
      /\ \A e \in NetDir \ {Fd(p)} : cur'[e] = cur[e] /\ after'[e] = after[e]
  BY RenameVersions
<1>2. holder' = holder  BY DEF Rename
<1>3. CASE d = Fd(p)
  <2>1. holder[d] = p /\ inv[p].mem \in Nat /\ cur[d] <= inv[p].mem /\ cur[d] \in Nat
    BY <1>1, <1>3, InCommit, Whole
  <2>2. cur'[d] \in Nat /\ cur'[d] >= cur[d] /\ after'[d] = after[d] \cup {cur'[d]}
        /\ holder'[d] = holder[d]
    BY <1>1, <1>2, <1>3, <2>1
  <2>3. File(d)!Replace(p)  BY <2>1, <2>2 DEF File!Replace
  <2>4. QED  BY <2>3 DEF FileStep, File!FileNext
<1>4. CASE d # Fd(p)  BY <1>1, <1>2, <1>4, UnseenIsStep DEF Unseen
<1>5. QED  BY <1>3, <1>4

LEMMA DirSyncIsSettle ==
  ASSUME Inv, NEW p \in Proc, DirSync(p), NEW d \in NetDir
  PROVE  FileStep(d)
<1>1. /\ cur' = cur /\ after'[Fd(p)] = {cur[Fd(p)]}
      /\ \A e \in NetDir \ {Fd(p)} : after'[e] = after[e]
  BY DirSyncVersions
<1>2. holder' = holder  BY DEF DirSync
<1>3. CASE d = Fd(p)  BY <1>1, <1>2, <1>3 DEF FileStep, File!FileNext, File!Settle
<1>4. CASE d # Fd(p)  BY <1>1, <1>2, <1>4, UnseenIsStep DEF Unseen
<1>5. QED  BY <1>3, <1>4

LEMMA PowerLossIsStep ==
  ASSUME Inv, PowerLoss, NEW d \in NetDir
  PROVE  FileStep(d)
<1>1. after'[d] = {cur'[d]} /\ (cur'[d] \in after[d] \/ cur'[d] = 0)  BY PowerLossFiles
<1>2. holder'[d] = NoProc  BY DEF PowerLoss
<1>3. File(d)!PowerLoss \/ File(d)!Vanish  BY <1>1, <1>2 DEF File!PowerLoss, File!Vanish
<1>4. QED  BY <1>3 DEF FileStep, File!FileNext

(* Every step replaces the file as a whole under its lock, settles it,     *)
(* takes or frees the lock, or does nothing to it: the steps of            *)
(* writeStateAtomic and of the lock implement AtomicFile (state.go:308-353, *)
(* store.go:98-160).                                                       *)
THEOREM StepsImplementAtomicFile == Spec => ImplementsAtomicFile
<1>1. ASSUME Init PROVE FileInit
  <2>1. SUFFICES ASSUME NEW d \in NetDir PROVE File(d)!FileInit  BY DEF FileInit
  <2>2. holder[d] = NoProc /\ cur[d] = 0 /\ after[d] = {0}  BY <1>1 DEF Init
  <2>3. QED  BY <2>2 DEF File!FileInit
<1>2. ASSUME Inv, [Next]_vars, NEW d \in NetDir PROVE FileStep(d)
  <2>1. ASSUME NEW p \in Proc,
               \/ Invoke(p) \/ Open(p) \/ MkDir(p) \/ Load(p) \/ Modify(p) \/ Commit(p)
               \/ Create(p) \/ Inspect(p) \/ Write(p) \/ Sync(p) \/ InspectFails(p)
               \/ CommitFails(p) \/ DirSyncFails(p)
        PROVE  Unseen(d)
    BY <2>1 DEF Unseen, fileVars, Invoke, Open, MkDir, Load, Modify, Commit, Create, Inspect,
                Write, Sync, Prepare, InspectFails, CommitFails, DirSyncFails
  <2>2. ASSUME NEW p \in Proc, EarlyReturn(p) \/ Succeed(p) \/ Fail(p) \/ Crash(p)
        PROVE  FileStep(d)
    <3>1. holder' = Freed(p) /\ cur' = cur /\ after' = after
      BY <2>2 DEF EarlyReturn, Succeed, Fail, Crash, fileVars
    <3>2. QED  BY <1>2, <3>1, FreedIsStep
  <2>3. ASSUME NEW p \in Proc, Lock(p) PROVE FileStep(d)
    <3>1. /\ holder[Fd(p)] = NoProc /\ holder' = [holder EXCEPT ![Fd(p)] = p]
          /\ cur' = cur /\ after' = after
      BY <2>3 DEF Lock, fileVars
    <3>2. holder'[d] = IF d = Fd(p) THEN p ELSE holder[d]  BY <1>2, <3>1 DEF Inv, Types
    <3>3. CASE d = Fd(p)
      <4>1. File(d)!Acquire(p)  BY <3>1, <3>2, <3>3 DEF File!Acquire
      <4>2. QED  BY <4>1 DEF FileStep, File!FileNext
    <3>4. CASE d # Fd(p)  BY <3>1, <3>2, <3>4, UnseenIsStep DEF Unseen
    <3>5. QED  BY <3>3, <3>4
  <2>4. ASSUME NEW e \in Dir, WriteBackEntry(e) PROVE Unseen(d)
    BY <2>4 DEF WriteBackEntry, fileVars, Unseen
  <2>5. ASSUME NEW e \in NetDir, WriteBackFile(e) PROVE FileStep(d)
    <3>1. /\ after' = [after EXCEPT ![e] = {cur[e]}] /\ holder' = holder /\ cur' = cur
      BY <2>5 DEF WriteBackFile
    <3>2. after'[d] = IF d = e THEN {cur[e]} ELSE after[d]  BY <1>2, <3>1 DEF Inv, Types
    <3>3. CASE d = e  BY <3>1, <3>2, <3>3 DEF FileStep, File!FileNext, File!Settle
    <3>4. CASE d # e  BY <3>1, <3>2, <3>4, UnseenIsStep DEF Unseen
    <3>5. QED  BY <3>3, <3>4
  <2>6. CASE UNCHANGED vars  BY <2>6, UnseenIsStep DEF vars, Unseen
  <2>7. QED
    BY <1>2, <2>1, <2>2, <2>3, <2>4, <2>5, <2>6, UnseenIsStep, RenameIsReplace,
       DirSyncIsSettle, PowerLossIsStep DEF Next, Opening, Committing
<1>3. Inv /\ [Next]_vars => [\A d \in NetDir : FileStep(d)]_vars  BY <1>2
<1>4. QED  BY <1>1, <1>3, InvAlways, PTL DEF Spec, ImplementsAtomicFile
=============================================================================
