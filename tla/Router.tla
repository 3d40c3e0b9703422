-------------------------------- MODULE Router --------------------------------
(***************************************************************************)
(* From DIFY_APP_KEYS and a (player, npc) pair to a Dify app key: what     *)
(* parseAppKeys of internal/config does with a part, userID of             *)
(* internal/pipeline, and npcIDFromUser and clientForUser of               *)
(* internal/gateway.  Ids are sequences of characters, because they are    *)
(* joined and split at colons.  Load and HandleChat trim names, keys and   *)
(* npc ids, so none has blanks at its ends and the trims of npcIDFromUser  *)
(* and NewDifyRouter find nothing to cut.                                  *)
(***************************************************************************)
EXTENDS Naturals, Sequences

CONSTANTS
    Default,     \* the npc id "default"
    Blank,       \* an empty part of DIFY_APP_KEYS
    Malformed,   \* a part without "="
    NoApp        \* no app key fits

Colon == ":"

\* name=key, with both given.
validPair(part) ==
    part \notin {Blank, Malformed} /\ part.name # <<>> /\ part.key # <<>>

\* keys[name] = key
setKey(keys, part) ==
    [n \in DOMAIN keys \cup {part.name} |-> IF n = part.name THEN part.key ELSE keys[n]]

userID(player, npc) == player \o <<Colon>> \o npc

\* Seeded fault: the first colon instead of the last.
npcAfterFirstColon(user) ==
    LET colons == {i \in DOMAIN user : user[i] = Colon}
        idx    == CHOOSE i \in colons : \A j \in colons : i <= j
    IN  IF colons = {} THEN <<>> ELSE SubSeq(user, idx + 1, Len(user))

\* What follows the last colon, <<>> when there is none.
npcIDFromUser(user) ==
    LET colons == {i \in DOMAIN user : user[i] = Colon}
        idx    == CHOOSE i \in colons : \A j \in colons : j <= i
    IN  IF colons = {} THEN <<>> ELSE SubSeq(user, idx + 1, Len(user))

\* The key of the client: that of the npc, or of "default", or an error.
clientForUser(keys, user) ==
    LET npc == npcIDFromUser(user)
    IN  CASE npc \in DOMAIN keys     -> keys[npc]
          [] npc \notin DOMAIN keys /\ Default \in DOMAIN keys -> keys[Default]
          [] OTHER                   -> NoApp

=============================================================================
