------------------------------ MODULE MCShared ------------------------------
(* The evaluation cache, the bounds of the nodes and the kernels of the backends, side
   by side: a behaviour is one of them; the others are not there. *)
EXTENDS MCLruCache, MCBounds, MCKernels

VARIABLE system

SharedVars == <<system, lruVars, vars, knVars>>

SharedInit == system \in {"cache", "bounds", "kernels"} /\ LruInit /\ Init /\ KnInit

SharedNext ==
    /\ UNCHANGED system
    /\ \/ system = "cache" /\ LruNext /\ UNCHANGED <<vars, knVars>>
       \/ system = "bounds" /\ Next /\ UNCHANGED <<lruVars, knVars>>
       \/ system = "kernels" /\ KnNext /\ UNCHANGED <<lruVars, vars>>
       \* the kernels, and they only, come to an end
       \/ system = "kernels" /\ KnComputed /\ UNCHANGED <<lruVars, vars, knVars>>

SharedSpec == SharedInit /\ [][SharedNext]_SharedVars
=============================================================================
