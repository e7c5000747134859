-------------------------------- MODULE OwnLists --------------------------------
(****************************************************************************)
(* The lists a user keeps in their own document: whom they block, whom they     *)
(* have muted, which channels they have muted.  Each is changed by one toggle   *)
(* in the same way (toggle_contact_block, toggle_contact_mute,                  *)
(* toggle_channel_mute): the document is read, one entry of a copy is turned,   *)
(* and the copy is written over the whole list.  The module is one such list.   *)
(*                                                                          *)
(* A toggle asks first whether the entry is a friend, or a channel the user is   *)
(* a member of; that may end at any time, and the entry stays.                  *)
(****************************************************************************)
EXTENDS Naturals, FiniteSets

CONSTANTS
    Entry,    \* the contacts, or the channels
    MaxToggles, \* bound: toggles
    AtOnce    \* bound: toggles in progress

VARIABLES
    list,    \* what the document says
    related, \* the entries that are friends, or channels of the user
    toggle,  \* the toggles in progress: stage, entry, the copy
    made,    \* toggles so far
    told,    \* entry -> what the client was told last
    crossed  \* history: entries that a copy read before they were turned was written over,
             \* or that were turned by two toggles at once

vars == <<list, related, toggle, made, told, crossed>>

Toggle == 1 .. AtOnce
Rest == [stage |-> "none", entry |-> CHOOSE e \in Entry : TRUE, copy |-> {}]

OInit ==
    /\ list = {}
    /\ related = Entry
    /\ toggle = [t \in Toggle |-> Rest]
    /\ made = 0
    /\ told = [e \in Entry |-> FALSE]
    /\ crossed = {}

\* The others that are in progress.
Others(t) == {o \in Toggle \ {t} : toggle[o].stage # "none"}

\* require_friends_or_503 or can_access_channel has let the toggle through.
ToggleAsk(t, e) ==
    /\ toggle[t].stage = "none"
    /\ e \in related
    /\ made < MaxToggles
    /\ made' = made + 1
    /\ toggle' = [toggle EXCEPT ![t] = [stage |-> "asked", entry |-> e, copy |-> {}]]
    /\ crossed' = crossed \union {x \in {e} : \E o \in Others(t) : toggle[o].entry = e}
    /\ UNCHANGED <<list, related, told>>

ToggleRead(t) ==
    /\ toggle[t].stage = "asked"
    /\ toggle' = [toggle EXCEPT ![t].stage = "read", ![t].copy = list]
    /\ UNCHANGED <<list, related, made, told, crossed>>

\* A mutant of Turned: the new entry is the whole list.
Alone(t) ==
    IF toggle[t].entry \in toggle[t].copy THEN {} ELSE {toggle[t].entry}

Turned(t) ==
    LET e == toggle[t].entry IN
    IF e \in toggle[t].copy THEN toggle[t].copy \ {e} ELSE toggle[t].copy \union {e}

\* set_fields writes the whole list; what another toggle has changed since is lost.
ToggleWrite(t) ==
    /\ toggle[t].stage = "read"
    /\ list' = Turned(t)
    /\ crossed' = crossed \union {e \in Entry : e # toggle[t].entry /\ (e \in list) # (e \in toggle[t].copy)}
    /\ toggle' = [toggle EXCEPT ![t].stage = "written"]
    /\ UNCHANGED <<related, made, told>>

ToggleFails(t) ==
    /\ toggle[t].stage \in {"asked", "read"}
    /\ toggle' = [toggle EXCEPT ![t] = Rest]
    /\ UNCHANGED <<list, related, made, told, crossed>>

\* The answer, and contact-block-updated.
ToggleTell(t) ==
    LET e == toggle[t].entry IN
    /\ toggle[t].stage = "written"
    /\ told' = [told EXCEPT ![e] = e \notin toggle[t].copy]
    /\ toggle' = [toggle EXCEPT ![t] = Rest]
    /\ UNCHANGED <<list, related, made, crossed>>

\* The friendship or the membership ends, or is there again.
Relates(e) ==
    /\ related' = IF e \in related THEN related \ {e} ELSE related \union {e}
    /\ UNCHANGED <<list, toggle, made, told, crossed>>

ONext ==
    \/ \E t \in Toggle :
        \/ \E e \in Entry : ToggleAsk(t, e)
        \/ ToggleRead(t) \/ ToggleWrite(t) \/ ToggleFails(t) \/ ToggleTell(t)
    \/ \E e \in Entry : Relates(e)

OSpec == OInit /\ [][ONext]_vars

-----------------------------------------------------------------------------
OTypeOK ==
    /\ list \subseteq Entry /\ related \subseteq Entry /\ crossed \subseteq Entry
    /\ toggle \in [Toggle -> [stage : {"none", "asked", "read", "written"}, entry : Entry,
                              copy : SUBSET Entry]]
    /\ made \in 0 .. MaxToggles
    /\ told \in [Entry -> BOOLEAN]

\* What the client was told last of an entry is what the document says, but for an entry
\* whose own toggles overlapped and one that a copy read before its change was written
\* over: a toggle changes no entry but its own.
ToldIsSo ==
    \A e \in Entry \ crossed :
        (\A t \in Toggle : toggle[t].stage = "written" => toggle[t].entry # e)
            => (told[e] <=> e \in list)
=================================================================================
