-------------------------- MODULE ContainerStorage --------------------------
(***************************************************************************)
(* What the container and item services promise together, without flags,   *)
(* counters, locks or requests in flight.                                  *)
(*                                                                         *)
(* A container is open, archived (soft deleted) or gone.  It has a content *)
(* and a bin of items that were deleted one by one.  An archived container *)
(* is sealed: nothing enters or leaves its content until it is reopened    *)
(* with exactly that content, or destroyed with everything in it.  While   *)
(* it is open its content fits its capacity.                               *)
(***************************************************************************)
CONSTANTS Containers, Items, TotalVolumes, ItemVolumes,
          Fits(_, _, _)  \* Fits(size, S, total): the items of S may share a
                         \* container of that total

VARIABLES
    phase,     \* "none", "open", "archived" or "gone"
    capacity,  \* total volume of each container
    content,   \* items in each container
    bin,       \* items deleted individually, still recoverable
    size       \* volume of each item

storageVars == <<phase, capacity, content, bin, size>>

Known == UNION {content[c] \cup bin[c] : c \in Containers}

Init ==
    /\ phase = [c \in Containers |-> "none"]
    /\ capacity = [c \in Containers |-> 0]
    /\ content = [c \in Containers |-> {}]
    /\ bin = [c \in Containers |-> {}]
    /\ size = [i \in Items |-> 0]

Open(c, total) ==
    /\ phase[c] = "none"
    /\ phase' = [phase EXCEPT ![c] = "open"]
    /\ capacity' = [capacity EXCEPT ![c] = total]
    /\ UNCHANGED <<content, bin, size>>

Resize(c, total) ==
    /\ phase[c] = "open"
    /\ Fits(size, content[c], total)
    /\ capacity' = [capacity EXCEPT ![c] = total]
    /\ UNCHANGED <<phase, content, bin, size>>

Put(c, i, volume) ==
    /\ phase[c] = "open"
    /\ i \notin Known
    /\ size' = [size EXCEPT ![i] = volume]
    /\ content' = [content EXCEPT ![c] = @ \cup {i}]
    /\ Fits(size', content'[c], capacity[c])
    /\ UNCHANGED <<phase, capacity, bin>>

Reshape(c, i, volume) ==
    /\ phase[c] = "open"
    /\ i \in content[c]
    /\ size' = [size EXCEPT ![i] = volume]
    /\ Fits(size', content[c], capacity[c])
    /\ UNCHANGED <<phase, capacity, content, bin>>

Discard(c, i) ==
    /\ phase[c] = "open"
    /\ i \in content[c]
    /\ content' = [content EXCEPT ![c] = @ \ {i}]
    /\ bin' = [bin EXCEPT ![c] = @ \cup {i}]
    /\ UNCHANGED <<phase, capacity, size>>

Recover(c, i) ==
    /\ phase[c] = "open"
    /\ i \in bin[c]
    /\ content' = [content EXCEPT ![c] = @ \cup {i}]
    /\ bin' = [bin EXCEPT ![c] = @ \ {i}]
    /\ Fits(size, content'[c], capacity[c])
    /\ UNCHANGED <<phase, capacity, size>>

(* An item in the bin may be destroyed at any time, sealed or not. *)
Destroy(c, i) ==
    /\ i \in bin[c]
    /\ bin' = [bin EXCEPT ![c] = @ \ {i}]
    /\ UNCHANGED <<phase, capacity, content, size>>

Archive(c) ==
    /\ phase[c] = "open"
    /\ phase' = [phase EXCEPT ![c] = "archived"]
    /\ UNCHANGED <<capacity, content, bin, size>>

Reopen(c) ==
    /\ phase[c] = "archived"
    /\ Fits(size, content[c], capacity[c])
    /\ phase' = [phase EXCEPT ![c] = "open"]
    /\ UNCHANGED <<capacity, content, bin, size>>

Shred(c) ==
    /\ phase[c] = "archived"
    /\ phase' = [phase EXCEPT ![c] = "gone"]
    /\ content' = [content EXCEPT ![c] = {}]
    /\ bin' = [bin EXCEPT ![c] = {}]
    /\ UNCHANGED <<capacity, size>>

Next ==
    \E c \in Containers :
        \/ \E t \in TotalVolumes : Open(c, t) \/ Resize(c, t)
        \/ \E i \in Items, v \in ItemVolumes : Put(c, i, v) \/ Reshape(c, i, v)
        \/ \E i \in Items : Discard(c, i) \/ Recover(c, i) \/ Destroy(c, i)
        \/ Archive(c) \/ Reopen(c) \/ Shred(c)

StorageSpec == Init /\ [][Next]_storageVars
=============================================================================
