-------------------------------- MODULE TwoFactor --------------------------------
(****************************************************************************)
(* The two-factor settings of one account (controllers/auth.rs,                *)
(* utils/auth/step_up.rs): the secret in force, the one that is being set up,  *)
(* and the backup codes.  Every request reads the User document, thinks, and   *)
(* writes with set_fields what it made of what it read: nothing ties the write *)
(* to the document still being as it was.                                    *)
(*                                                                          *)
(* A code of the authenticator, or a backup code, is right or the request ends *)
(* without a change; only requests with a right one are here.                *)
(****************************************************************************)
EXTENDS Integers, FiniteSets

CONSTANTS
    MaxSecrets,   \* bound: secrets and sets of backup codes ever made
    MaxTwoFactor  \* bound: requests under way at once

VARIABLES
    settings,  \* of the User document: twoFactorEnabled, totpSecret, ...
    asking,    \* what the requests hold between their read and their write
    made,      \* how many secrets, and sets of codes, there have been
    spent,     \* history: the backup codes that were accepted
    shown,     \* history: the secrets a right code was seen for
    revived    \* history: the codes a write put back that was based on an old read

tfVars == <<settings, asking, made, spent, shown, revived>>

Secret == 0 .. MaxSecrets      \* 0 is none
Code == (1 .. MaxSecrets) \X {"a", "b"}   \* the set a code is of, and which it is
Asker == 1 .. MaxTwoFactor
CodesOf(n) == {n} \X {"a", "b"}

Settings == [enabled : BOOLEAN, secret : Secret, pending : Secret, codes : SUBSET Code]
Resting == [op |-> "none", read |-> [enabled |-> FALSE, secret |-> 0, pending |-> 0, codes |-> {}],
            code |-> <<>>, stale |-> FALSE]

TFTypeOK ==
    /\ settings \in Settings
    /\ asking \in [Asker -> [op : {"none", "setup", "enable", "disable", "use"}, read : Settings,
                             code : Code \union {<<>>}, stale : BOOLEAN]]
    /\ made \in 0 .. MaxSecrets
    /\ spent \subseteq Code
    /\ shown \subseteq Secret
    /\ revived \subseteq Code

TFInit ==
    /\ settings = Resting.read
    /\ asking = [r \in Asker |-> Resting]
    /\ made = 0
    /\ spent = {}
    /\ shown = {}
    /\ revived = {}

-----------------------------------------------------------------------------
\* The request reads the document; which of the free places it takes is the same.
Reads(r, op, code) ==
    /\ asking[r] = Resting
    /\ \A q \in Asker : q < r => asking[q] # Resting
    /\ asking' = [asking EXCEPT ![r] =
            [op |-> op, read |-> settings, code |-> code, stale |-> FALSE]]
    /\ UNCHANGED <<settings, made>>

\* set_fields; what the others read is old from now on.
Writes(r, new) ==
    /\ settings' = new
    /\ asking' = [q \in Asker |->
            IF q = r THEN Resting ELSE [asking[q] EXCEPT !.stale = asking[q] # Resting]]
    /\ revived' = IF asking[r].stale THEN revived \union (new.codes \ settings.codes)
                  ELSE revived \ (settings.codes \ new.codes)

Asks(r, op) == asking[r].op = op

-----------------------------------------------------------------------------
\* setup_two_factor: a secret to come.
SetupRead(r) ==
    /\ ~settings.enabled
    /\ Reads(r, "setup", <<>>)
    /\ UNCHANGED <<spent, shown, revived>>

SetupWrite(r) ==
    /\ Asks(r, "setup")
    /\ made < MaxSecrets
    /\ made' = made + 1
    /\ Writes(r, [settings EXCEPT !.pending = made + 1])
    /\ UNCHANGED <<spent, shown>>

\* enable_two_factor: a right code for the secret that it read,
EnableRead(r) ==
    /\ ~settings.enabled
    /\ settings.pending # 0
    /\ Reads(r, "enable", <<>>)
    /\ shown' = shown \union {settings.pending}
    /\ UNCHANGED <<spent, revived>>

\* Mutant of EnableWrite: what waits now is put in force.
EnableWriteAnew(r) ==
    /\ Asks(r, "enable")
    /\ made < MaxSecrets
    /\ made' = made + 1
    /\ Writes(r, [enabled |-> TRUE, secret |-> settings.pending, pending |-> 0,
                  codes |-> CodesOf(made + 1)])
    /\ UNCHANGED <<spent, shown>>

\* which is put in force, with new backup codes.
EnableWrite(r) ==
    /\ Asks(r, "enable")
    /\ made < MaxSecrets
    /\ made' = made + 1
    /\ Writes(r, [enabled |-> TRUE, secret |-> asking[r].read.pending, pending |-> 0,
                  codes |-> CodesOf(made + 1)])
    /\ UNCHANGED <<spent, shown>>

\* disable_two_factor, with a code of the authenticator or a backup code, which
\* is not taken from the list: the list goes.
DisableRead(r) ==
    /\ settings.enabled
    /\ Reads(r, "disable", <<>>)
    /\ UNCHANGED <<spent, shown, revived>>

DisableWrite(r) ==
    /\ Asks(r, "disable")
    /\ Writes(r, [enabled |-> FALSE, secret |-> 0, pending |-> 0, codes |-> {}])
    /\ UNCHANGED <<made, spent, shown>>

\* A backup code at verify_two_factor_login, or as step-up of change_password or
\* an account action (verify_step_up_auth): found in the list that was read,
UseRead(r) ==
    /\ settings.enabled
    /\ \E c \in settings.codes : Reads(r, "use", c)
    /\ UNCHANGED <<spent, shown, revived>>

\* Mutant of UseWrite: the code is accepted and the list is left as it is.
UseOnly(r) ==
    /\ Asks(r, "use")
    /\ Writes(r, settings)
    /\ spent' = spent \union {asking[r].code}
    /\ UNCHANGED <<made, shown>>

\* and that list is written back without it.
UseWrite(r) ==
    /\ Asks(r, "use")
    /\ Writes(r, [settings EXCEPT !.codes = asking[r].read.codes \ {asking[r].code}])
    /\ spent' = spent \union {asking[r].code}
    /\ UNCHANGED <<made, shown>>

\* The write fails and the request with it.
AskFails(r) ==
    /\ asking[r] # Resting
    /\ asking' = [asking EXCEPT ![r] = Resting]
    /\ UNCHANGED <<settings, made, spent, shown, revived>>

TFNext ==
    \E r \in Asker :
        \/ SetupRead(r) \/ SetupWrite(r)
        \/ EnableRead(r) \/ EnableWrite(r)
        \/ DisableRead(r) \/ DisableWrite(r)
        \/ UseRead(r) \/ UseWrite(r)
        \/ AskFails(r)

TFSpec == TFInit /\ [][TFNext]_tfVars

-----------------------------------------------------------------------------
\* Two-factor is on exactly while there is a secret, and the secret is one whose
\* owner has shown a right code for it, whatever setup came in between.
SecretWasShown ==
    /\ settings.enabled <=> settings.secret # 0
    /\ settings.enabled => settings.secret \in shown

\* A backup code that was accepted is not in the list any more, nor are there
\* codes with two-factor off, unless a write based on an older read brought them
\* back; and none is about to be accepted again but by a request that overlapped.
SpentCodesAreGone ==
    /\ settings.codes \intersect spent \subseteq revived
    /\ ~settings.enabled => settings.codes \subseteq revived
    /\ \A r \in Asker : asking[r].code \in spent => asking[r].stale \/ asking[r].code \in revived
=================================================================================
