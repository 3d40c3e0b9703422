-------------------------- MODULE ConversationStore --------------------------
(***************************************************************************)
(* What internal/store and resolveConversation promise of the mapping of   *)
(* one (player, npc) pair: an atomic get-or-create.  The first chat after  *)
(* the pair was last forgotten gives birth to a conversation, and no other *)
(* is born until the pair is forgotten again.  A chat may come back to any *)
(* conversation its client or the mapping knew, and so undo a reset made   *)
(* while it ran.                                                           *)
(***************************************************************************)

CONSTANTS Conv, NoConv, ClientConv

VARIABLES
    current,   \* the conversation of the pair, NoConv when there is none
    born,      \* the one created since there was last none, NoConv before
    known,     \* the conversations that exist beyond a running chat
    late       \* a creator has outlived its lock: no promise any more

vars == <<current, born, known, late>>

Init ==
    /\ current = NoConv
    /\ born = NoConv
    /\ known = ClientConv
    /\ late = FALSE

Create(x) ==
    /\ born = NoConv /\ x \notin known
    /\ current' = x
    /\ born' = x
    /\ known' = known \cup {x}

\* A created conversation is not stored: its chat failed or its process died.
Orphan(x) ==
    /\ known' = known \cup {x}
    /\ UNCHANGED <<current, born>>

Resume(x) ==
    /\ x \in known
    /\ current' = x
    /\ UNCHANGED <<born, known>>

Forget ==
    /\ current' = NoConv
    /\ born' = NoConv
    /\ UNCHANGED known

Next ==
    \/ \E x \in Conv : Create(x) \/ Orphan(x) \/ Resume(x)
    \/ Forget
    \/ late'

Spec == Init /\ [][Next]_vars

=============================================================================
