----------------------------- MODULE AtomicFile -----------------------------
(***************************************************************************)
(* What the steps of writeStateAtomic and the lock promise together: a     *)
(* file that only the holder of its lock replaces, always as a whole, and  *)
(* that a power loss can put back to a version that is not settled yet.    *)
(* Store.tla works with a file like this one (disk, lock).                 *)
(***************************************************************************)
EXTENDS Naturals

CONSTANTS Proc, NoProc

VARIABLES
  holder,    \* who has the lock, or NoProc
  value,     \* the version a reader finds
  safe       \* the versions a power loss may leave

fileVars == <<holder, value, safe>>

FileInit == holder = NoProc /\ value = 0 /\ safe = {0}

Acquire(p) == holder = NoProc /\ holder' = p /\ UNCHANGED <<value, safe>>

(* The holder returns or dies. *)
Free == holder' = NoProc /\ UNCHANGED <<value, safe>>

Replace(p) ==
  /\ holder = p
  /\ value' \in Nat /\ value' >= value
  /\ safe' = safe \cup {value'}
  /\ UNCHANGED holder

Settle == safe' = {value} /\ UNCHANGED <<holder, value>>

PowerLoss == holder' = NoProc /\ value' \in safe /\ safe' = {value'}

(* The directory of the file is lost in the power loss as well. *)
Vanish == holder' = NoProc /\ value' = 0 /\ safe' = {0}

FileNext ==
  \/ \E p \in Proc : Acquire(p) \/ Replace(p)
  \/ Free \/ Settle \/ PowerLoss \/ Vanish

FileSpec == FileInit /\ [][FileNext]_fileVars
=============================================================================
