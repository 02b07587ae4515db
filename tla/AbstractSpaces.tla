--------------------------- MODULE AbstractSpaces ---------------------------
(***************************************************************************)
(* What address spaces promise (docs/kernel.md, "Process Address Spaces"): *)
(* one kernel view that all of them share, and for every live space a      *)
(* private view that only operations on that space change.                 *)
(***************************************************************************)
CONSTANTS Spaces,     \* identities of address spaces
          PrivateVA,  \* virtual pages private to a space
          KernelVA,   \* virtual pages of the shared kernel half
          Leaves,     \* frames callers map
          Unmapped    \* the translation of an unmapped page

VARIABLES kernel,     \* KernelVA -> frame
          private     \* live space -> (PrivateVA -> frame)

Init ==
  /\ kernel = [va \in KernelVA |-> Unmapped]
  /\ DOMAIN private = {}

Create(id) ==
  /\ id \notin DOMAIN private
  /\ private' = [i \in DOMAIN private \cup {id} |->
                   IF i = id THEN [va \in PrivateVA |-> Unmapped]
                   ELSE private[i]]
  /\ UNCHANGED kernel

Destroy(id) ==
  /\ private' = [i \in DOMAIN private \ {id} |-> private[i]]
  /\ UNCHANGED kernel

Map(id, va, f) ==
  /\ private[id][va] = Unmapped
  /\ private' = [private EXCEPT ![id][va] = f]
  /\ UNCHANGED kernel

Unmap(id, va) ==
  /\ private' = [private EXCEPT ![id][va] = Unmapped]
  /\ UNCHANGED kernel

MapKernel(va, f) ==
  /\ kernel[va] = Unmapped
  /\ kernel' = [kernel EXCEPT ![va] = f]
  /\ UNCHANGED private

UnmapKernel(va) ==
  /\ kernel' = [kernel EXCEPT ![va] = Unmapped]
  /\ UNCHANGED private

Next ==
  \/ \E id \in Spaces : Create(id)
  \/ \E id \in DOMAIN private :
       \/ Destroy(id)
       \/ \E va \in PrivateVA : Unmap(id, va) \/ \E f \in Leaves : Map(id, va, f)
  \/ \E va \in KernelVA : UnmapKernel(va) \/ \E f \in Leaves : MapKernel(va, f)

Spec == Init /\ [][Next]_<<kernel, private>>
=============================================================================
