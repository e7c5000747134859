----------------------------- MODULE SessionsProofs -----------------------------
(****************************************************************************)
(* Proofs about Sessions, for any number of tokens, requests and sockets: a   *)
(* session that was ended has no live token again, but one that was being     *)
(* rotated when it was ended; old passwords are out; and the sockets of an     *)
(* ended session end.                                                        *)
(*                                                                          *)
(* Two facts carry the first through the requests' awaits.  A request that    *)
(* rotates a token holds its family, and knows when the family was ended in   *)
(* the meantime (Sound).  A new session has a family that no token ever had,  *)
(* so none that was ended (Bounded, Known).                                   *)
(****************************************************************************)
EXTENDS Sessions, TLAPS

TokenSet == [family : Nat, live : BOOLEAN, current : BOOLEAN, late : BOOLEAN]
RequestSet == [op : Operation, at : Place, family : Nat, token : Nat, current : BOOLEAN,
               listed : SUBSET Nat, late : BOOLEAN]

Typed ==
    /\ tokens \in Seq(TokenSet)
    /\ request \in [Request -> RequestSet]

\* What a request q holds agrees with the tokens ts and the ended families es.
Sound(q, ts, es) ==
    /\ q.at = "issue" => q.op \in {"login", "change"}
    /\ q.op \in {"refresh", "logout"} => q.token \in DOMAIN ts
    /\ q.op = "refresh" => q.family = ts[q.token].family
    /\ q.op = "refresh" /\ q.at \in {"user", "retire", "renew"} /\ q.family \in es => q.late

\* Tokens cut down or handed on: nothing of the old state can be seen in them.
EndedIn(ts, es) ==
    \A i \in DOMAIN ts : ts[i].live /\ ts[i].family \in es => ts[i].late

Bounded == \E n \in Families : \A g \in Families : g <= n
Known == ended \subseteq Families

Inv ==
    /\ Typed
    /\ Bounded
    /\ Known
    /\ \A r \in Request : Sound(request[r], tokens, ended)
    /\ EndedIn(tokens, ended)

-----------------------------------------------------------------------------
LEMMA InitInv == Init => Inv
<1> SUFFICES ASSUME Init PROVE Inv
  OBVIOUS
<1> DEFINE t == [family |-> 1, live |-> TRUE, current |-> TRUE, late |-> FALSE]
<1>1. t \in TokenSet /\ t.family = 1
  BY DEF TokenSet
<1>2. tokens = <<t>> /\ ended = {}
  BY DEF Init
<1>3. Idle \in RequestSet /\ Idle.op = "none" /\ Idle.at = "idle"
  BY DEF Idle, RequestSet, Operation, Place
<1>4. \A r \in Request : request[r] = Idle
  BY DEF Init
<1>5. request = [r \in Request |-> Idle]
  BY DEF Init
<1> HIDE DEF t
<1>6. tokens \in Seq(TokenSet) /\ DOMAIN tokens = {1} /\ tokens[1] = t
  BY <1>1, <1>2
<1>7. Families = {1}
  BY <1>1, <1>6 DEF Families
<1>8. Typed
  BY <1>3, <1>5, <1>6 DEF Typed
<1>9. Bounded /\ Known /\ EndedIn(tokens, ended)
  BY <1>2, <1>7 DEF Bounded, Known, EndedIn
<1>10. \A r \in Request : Sound(request[r], tokens, ended)
  BY <1>3, <1>4 DEF Sound
<1> QED BY <1>8, <1>9, <1>10 DEF Inv

-----------------------------------------------------------------------------
(****************************************************************************)
(* The ways a step touches the tokens and the requests.                       *)
(****************************************************************************)
\* One request goes to another state, and the tokens stay.
LEMMA RequestMoves ==
  ASSUME Inv, UNCHANGED <<tokens, ended>>, NEW r \in Request, NEW STATE q, q \in RequestSet,
         Sound(q, tokens, ended), request' = [request EXCEPT ![r] = q]
  PROVE  Inv'
<1>1. Typed'
  BY DEF Inv, Typed
<1>2. \A p \in Request : Sound(request'[p], tokens, ended)
  BY DEF Inv, Typed
<1>3. Bounded' /\ Known' /\ EndedIn(tokens, ended)'
  BY DEF Inv, Bounded, Known, Families, EndedIn
<1>4. \A p \in Request : Sound(request'[p], tokens', ended')
  BY <1>2
<1> QED BY <1>1, <1>3, <1>4 DEF Inv

\* A request that becomes idle is sound, whatever the tokens.
LEMMA IdleSound ==
  ASSUME NEW ts, NEW es
  PROVE  Idle \in RequestSet /\ Sound(Idle, ts, es)
  BY DEF Idle, RequestSet, Operation, Place, Sound

LEMMA RequestAnswers ==
  ASSUME Inv, UNCHANGED <<tokens, ended>>, NEW r \in Request, Answers(r)
  PROVE  Inv'
<1>1. request' = [request EXCEPT ![r] = Idle]
  BY DEF Answers
<1> QED BY <1>1, IdleSound, RequestMoves

\* A request that only moves on, to a place that asks for nothing new.
LEMMA RequestGoes ==
  ASSUME Inv, UNCHANGED <<tokens, ended>>, NEW r \in Request, NEW at \in Place, Goes(r, at),
         at = "issue" => request[r].op = "change",
         at \in {"user", "retire", "renew"} => request[r].at \in {"user", "retire", "renew"}
  PROVE  Inv'
<1> DEFINE q == [request[r] EXCEPT !.at = at]
<1>1. request[r] \in RequestSet /\ Sound(request[r], tokens, ended)
  BY DEF Inv, Typed
<1>2. /\ q \in RequestSet /\ q.at = at
      /\ q.op = request[r].op /\ q.family = request[r].family
      /\ q.token = request[r].token /\ q.late = request[r].late
  BY <1>1 DEF RequestSet
<1>3. request' = [request EXCEPT ![r] = q]
  BY DEF Goes
<1> HIDE DEF q
<1>4. Sound(q, tokens, ended)
  BY <1>1, <1>2 DEF Sound
<1> QED BY <1>2, <1>3, <1>4, RequestMoves

\* A token is retired: its family stays.
LEMMA TokenRetired ==
  ASSUME Inv, UNCHANGED ended, NEW STATE i, i \in DOMAIN tokens,
         tokens' = [tokens EXCEPT ![i].live = FALSE]
  PROVE  /\ tokens' \in Seq(TokenSet)
         /\ DOMAIN tokens' = DOMAIN tokens
         /\ \A j \in DOMAIN tokens : /\ tokens'[j].family = tokens[j].family
                                     /\ tokens'[j].late = tokens[j].late
                                     /\ tokens'[j].current = tokens[j].current
                                     /\ tokens'[j].live => tokens[j].live
<1> DEFINE t == [tokens[i] EXCEPT !.live = FALSE]
<1>1. tokens \in Seq(TokenSet)
  BY DEF Inv, Typed
<1>2. tokens[i] \in TokenSet
  BY <1>1
<1>3. /\ t \in TokenSet /\ t.family = tokens[i].family /\ t.late = tokens[i].late
      /\ t.current = tokens[i].current /\ t.live = FALSE
  BY <1>2 DEF TokenSet
<1>4. tokens' = [tokens EXCEPT ![i] = t]
  OBVIOUS
<1> HIDE DEF t
<1>5. tokens' \in Seq(TokenSet) /\ DOMAIN tokens' = DOMAIN tokens
  <2>1. PICK n \in Nat : tokens \in [1 .. n -> TokenSet]
    BY <1>1
  <2>2. tokens' \in [1 .. n -> TokenSet]
    BY <1>3, <1>4, <2>1
  <2>3. [1 .. n -> TokenSet] \subseteq Seq(TokenSet)
    OBVIOUS
  <2> QED BY <2>1, <2>2, <2>3
<1>6. \A j \in DOMAIN tokens : tokens'[j] = IF j = i THEN t ELSE tokens[j]
  BY <1>1, <1>4
<1> QED BY <1>3, <1>5, <1>6

\* Tokens of families are revoked.
LEMMA TokensRevoked ==
  ASSUME tokens \in Seq(TokenSet), NEW STATE fs, tokens' = Revoked(fs)
  PROVE  /\ tokens' \in Seq(TokenSet)
         /\ DOMAIN tokens' = DOMAIN tokens
         /\ \A j \in DOMAIN tokens :
              /\ tokens'[j].family = tokens[j].family
              /\ tokens'[j].late = tokens[j].late
              /\ tokens'[j].current = tokens[j].current
              /\ tokens'[j].live => tokens[j].live /\ tokens[j].family \notin fs
<1> DEFINE t(j) == [tokens[j] EXCEPT !.live = @ /\ tokens[j].family \notin fs]
<1>1. \A j \in DOMAIN tokens :
        /\ t(j) \in TokenSet /\ t(j).family = tokens[j].family /\ t(j).late = tokens[j].late
        /\ t(j).current = tokens[j].current
        /\ t(j).live => tokens[j].live /\ tokens[j].family \notin fs
  <2> TAKE j \in DOMAIN tokens
  <2>1. tokens[j] \in TokenSet
    OBVIOUS
  <2> DEFINE b == tokens[j].live /\ tokens[j].family \notin fs
  <2>2. b \in BOOLEAN
    OBVIOUS
  <2>3. t(j) = [tokens[j] EXCEPT !.live = b]
    OBVIOUS
  <2> HIDE DEF t, b
  <2>4. /\ t(j) \in TokenSet /\ t(j).family = tokens[j].family
        /\ t(j).late = tokens[j].late /\ t(j).live = b
        /\ t(j).current = tokens[j].current
    BY <2>1, <2>2, <2>3 DEF TokenSet
  <2> QED BY <2>4 DEF b
<1>2. tokens' = [j \in DOMAIN tokens |-> t(j)]
  BY DEF Revoked
<1> HIDE DEF t
<1>3. tokens' \in Seq(TokenSet) /\ DOMAIN tokens' = DOMAIN tokens
  <2>1. PICK n \in Nat : DOMAIN tokens = 1 .. n
    OBVIOUS
  <2> QED BY <1>1, <1>2, <2>1
<1> QED BY <1>1, <1>2, <1>3

\* A token is added.
LEMMA TokenAdded ==
  ASSUME tokens \in Seq(TokenSet), NEW STATE t, t \in TokenSet, tokens' = Append(tokens, t)
  PROVE  /\ tokens' \in Seq(TokenSet)
         /\ DOMAIN tokens \subseteq DOMAIN tokens'
         /\ \A j \in DOMAIN tokens' : tokens'[j] = t \/ j \in DOMAIN tokens
         /\ \A j \in DOMAIN tokens : tokens'[j] = tokens[j]
         /\ \E j \in DOMAIN tokens' : tokens'[j] = t
<1>1. DOMAIN tokens = 1 .. Len(tokens) /\ DOMAIN tokens' = 1 .. (Len(tokens) + 1)
  OBVIOUS
<1>2. tokens'[Len(tokens) + 1] = t
  OBVIOUS
<1> QED BY <1>1, <1>2

\* What a request holds stays true while the tokens keep their families.
LEMMA SoundKept ==
  ASSUME NEW q, NEW ts, NEW us, NEW es, Sound(q, ts, es),
         DOMAIN ts \subseteq DOMAIN us,
         \A j \in DOMAIN ts : us[j].family = ts[j].family
  PROVE  Sound(q, us, es)
  BY DEF Sound

\* Where every token keeps its family, the families are the same.
LEMMA FamiliesKept ==
  ASSUME DOMAIN tokens' = DOMAIN tokens,
         \A j \in DOMAIN tokens : tokens'[j].family = tokens[j].family
  PROVE  Families' = Families
  BY DEF Families

\* A number above a bound is a family of nobody.
LEMMA NewFamily ==
  ASSUME Inv
  PROVE  /\ LastFamily + 1 \in Nat
         /\ LastFamily + 1 \notin ended
         /\ \A g \in Families : g <= LastFamily + 1
<1>1. Families \subseteq Nat
  <2>1. \A i \in DOMAIN tokens : tokens[i] \in TokenSet
    BY DEF Inv, Typed
  <2>2. \A i \in DOMAIN tokens : tokens[i].family \in Nat
    BY <2>1 DEF TokenSet
  <2> QED BY <2>2 DEF Families
<1>2. PICK n \in Families : \A g \in Families : g <= n
  BY DEF Inv, Bounded
<1>3. LastFamily \in Families /\ \A g \in Families : g <= LastFamily
  BY <1>2 DEF LastFamily
<1>4. \A g \in Families : g <= LastFamily + 1 /\ g # LastFamily + 1
  BY <1>1, <1>3
<1> QED BY <1>1, <1>3, <1>4 DEF Inv, Known

-----------------------------------------------------------------------------
(****************************************************************************)
(* Revocations.                                                               *)
(****************************************************************************)
\* A revocation of families there are, if the requests come out of it sound.
LEMMA Revocation ==
  ASSUME Inv, NEW STATE fs, fs \in SUBSET Families, tokens' = Revoked(fs), ended' = ended \union fs,
         request' \in [Request -> RequestSet],
         \A q \in Request : Sound(request'[q], tokens', ended')
  PROVE  Inv'
<1>1. /\ tokens' \in Seq(TokenSet)
      /\ DOMAIN tokens' = DOMAIN tokens
      /\ \A j \in DOMAIN tokens :
           /\ tokens'[j].family = tokens[j].family
           /\ tokens'[j].late = tokens[j].late
           /\ tokens'[j].live => tokens[j].live /\ tokens[j].family \notin fs
  BY TokensRevoked DEF Inv, Typed
<1>2. Families' = Families
  BY <1>1, FamiliesKept
<1>3. Bounded' /\ Known'
  BY <1>2 DEF Inv, Bounded, Known
<1>4. EndedIn(tokens', ended')
  BY <1>1 DEF Inv, EndedIn
<1>5. Typed'
  BY <1>1 DEF Typed
<1> QED BY <1>3, <1>4, <1>5 DEF Inv, EndedIn

\* The requests a revocation overtakes come out of it sound: it marks those that
\* rotate a token of its families.
LEMMA OvertakenSound ==
  ASSUME Inv, NEW STATE fs, fs \in SUBSET Families, tokens' = Revoked(fs), ended' = ended \union fs,
         NEW q \in Request, NEW STATE p, p = [request[q] EXCEPT !.late = @ \/ Holds(q, fs)]
  PROVE  p \in RequestSet /\ Sound(p, tokens', ended')
<1>1. request[q] \in RequestSet /\ Sound(request[q], tokens, ended)
  BY DEF Inv, Typed
<1> DEFINE b == request[q].late \/ Holds(q, fs)
<1>2. b \in BOOLEAN
  BY <1>1 DEF RequestSet, Holds
<1>3. p = [request[q] EXCEPT !.late = b]
  OBVIOUS
<1>4. (request[q].late => b) /\ (request[q].op = "refresh" /\ request[q].family \in fs => b)
  BY DEF Holds
<1> HIDE DEF b
<1>5. /\ p \in RequestSet /\ p.op = request[q].op /\ p.at = request[q].at
      /\ p.family = request[q].family /\ p.token = request[q].token /\ p.late = b
  BY <1>1, <1>2, <1>3 DEF RequestSet
<1>6. Sound(p, tokens, ended')
  BY <1>1, <1>4, <1>5 DEF Sound
<1>7. Sound(p, tokens', ended')
  <2>1. /\ DOMAIN tokens' = DOMAIN tokens
        /\ \A j \in DOMAIN tokens : tokens'[j].family = tokens[j].family
    BY TokensRevoked DEF Inv, Typed
  <2> QED BY <1>6, <2>1, SoundKept
<1> QED BY <1>5, <1>7

\* A request revokes families, and goes to a state that is sound after that.
LEMMA RequestRevokes ==
  ASSUME Inv, NEW STATE fs, fs \in SUBSET Families, tokens' = Revoked(fs), ended' = ended \union fs,
         NEW r \in Request, NEW STATE next, next \in RequestSet, Sound(next, tokens', ended'),
         request' = Overtaken(r, fs, next)
  PROVE  Inv'
<1> DEFINE p(q) == [request[q] EXCEPT !.late = @ \/ Holds(q, fs)]
<1>1. \A q \in Request : p(q) \in RequestSet /\ Sound(p(q), tokens', ended')
  BY OvertakenSound
<1>2. request' = [q \in Request |-> IF q = r THEN next ELSE p(q)]
  BY DEF Overtaken
<1> HIDE DEF p
<1>3. request' \in [Request -> RequestSet]
  BY <1>1, <1>2
<1>4. \A q \in Request : Sound(request'[q], tokens', ended')
  <2> TAKE q \in Request
  <2>1. CASE q = r
    BY <1>2, <2>1
  <2>2. CASE q # r
    BY <1>1, <1>2, <2>2
  <2> QED BY <2>1, <2>2
<1> QED BY <1>3, <1>4, Revocation

-----------------------------------------------------------------------------
(****************************************************************************)
(* A token is added, by a request that goes on to its access token.           *)
(****************************************************************************)
LEMMA Addition ==
  ASSUME Inv, UNCHANGED ended, NEW STATE t, t \in TokenSet, tokens' = Append(tokens, t),
         t.live /\ t.family \in ended => t.late,
         \A g \in Families : g <= t.family \/ t.family \in Families,
         NEW r \in Request, NEW STATE q, q \in RequestSet, Sound(q, tokens, ended),
         request' = [request EXCEPT ![r] = q]
  PROVE  Inv'
<1>1. tokens \in Seq(TokenSet)
  BY DEF Inv, Typed
<1>2. /\ tokens' \in Seq(TokenSet)
      /\ DOMAIN tokens \subseteq DOMAIN tokens'
      /\ \A j \in DOMAIN tokens' : tokens'[j] = t \/ j \in DOMAIN tokens
      /\ \A j \in DOMAIN tokens : tokens'[j] = tokens[j]
      /\ \E j \in DOMAIN tokens' : tokens'[j] = t
  BY <1>1, TokenAdded
<1>3. Families' = Families \union {t.family}
  <2>1. Families' \subseteq Families \union {t.family}
    BY <1>2 DEF Families
  <2>2. Families \subseteq Families' /\ t.family \in Families'
    BY <1>2 DEF Families
  <2> QED BY <2>1, <2>2
<1>4. Bounded'
  <2>1. CASE t.family \in Families
    BY <1>3, <2>1 DEF Inv, Bounded
  <2>2. CASE t.family \notin Families
    <3>1. t.family \in Families' /\ t.family \in Nat
      BY <1>3 DEF TokenSet
    <3>2. \A g \in Families' : g <= t.family
      BY <1>3, <2>2, <3>1
    <3> QED BY <3>1, <3>2 DEF Bounded
  <2> QED BY <2>1, <2>2
<1>5. Known'
  BY <1>3 DEF Inv, Known
<1>6. EndedIn(tokens', ended')
  <2>1. \A j \in DOMAIN tokens' : tokens'[j].live /\ tokens'[j].family \in ended => tokens'[j].late
    <3> TAKE j \in DOMAIN tokens'
    <3>1. CASE tokens'[j] = t
      BY <3>1
    <3>2. CASE j \in DOMAIN tokens
      BY <1>2, <3>2 DEF Inv, EndedIn
    <3> QED BY <1>2, <3>1, <3>2
  <2> QED BY <2>1 DEF EndedIn
<1>7. Typed'
  BY <1>2 DEF Inv, Typed
<1>8. \A p \in Request : Sound(request'[p], tokens', ended')
  <2> TAKE p \in Request
  <2>1. Sound(request'[p], tokens, ended)
    BY DEF Inv, Typed
  <2>2. \A j \in DOMAIN tokens : tokens'[j].family = tokens[j].family
    BY <1>2
  <2>3. Sound(request'[p], tokens', ended)
    BY <1>2, <2>1, <2>2 DEF Sound
  <2> QED BY <2>3
<1> QED BY <1>4, <1>5, <1>6, <1>7, <1>8 DEF Inv, EndedIn

-----------------------------------------------------------------------------
(****************************************************************************)
(* The steps.                                                                 *)
(****************************************************************************)
\* A request that starts: what it holds is sound.
LEMMA RequestStarts ==
  ASSUME Inv, UNCHANGED <<tokens, ended>>, NEW r \in Request,
         NEW op \in Operation, NEW at \in Place, NEW STATE what, what \in RequestSet,
         Starts(r, op, at, what),
         at = "issue" => op \in {"login", "change"},
         op \in {"refresh", "logout"} => what.token \in DOMAIN tokens,
         op = "refresh" => what.family = tokens[what.token].family,
         op = "refresh" /\ at \in {"user", "retire", "renew"} /\ what.family \in ended => what.late
  PROVE  Inv'
<1> DEFINE q == [what EXCEPT !.op = op, !.at = at]
<1>1. /\ q \in RequestSet /\ q.op = op /\ q.at = at
      /\ q.token = what.token /\ q.family = what.family /\ q.late = what.late
  BY DEF RequestSet
<1>2. request' = [request EXCEPT ![r] = q]
  BY DEF Starts
<1> HIDE DEF q
<1>3. Sound(q, tokens, ended)
  BY <1>1 DEF Sound
<1> QED BY <1>1, <1>2, <1>3, RequestMoves

LEMMA FindTokenKeeps ==
  ASSUME Inv, NEW r \in Request, FindToken(r)
  PROVE  Inv'
<1>1. PICK i \in DOMAIN tokens, next \in {"user", "reuse", "drop"} :
        /\ tokens[i].live \/ next = "reuse"
        /\ Starts(r, "refresh", next,
                  [Idle EXCEPT !.token = i, !.family = tokens[i].family, !.late = tokens[i].late])
        /\ UNCHANGED <<database, spawned, socket, history>>
  BY DEF FindToken
<1> DEFINE what == [Idle EXCEPT !.token = i, !.family = tokens[i].family, !.late = tokens[i].late]
<1>2. tokens[i] \in TokenSet /\ i \in Nat
  BY DEF Inv, Typed
<1>3. tokens[i].family \in Nat /\ tokens[i].late \in BOOLEAN
  BY <1>2 DEF TokenSet
<1>4. /\ what \in RequestSet /\ what.token = i /\ what.family = tokens[i].family
      /\ what.late = tokens[i].late
  BY <1>2, <1>3 DEF Idle, RequestSet, Operation, Place
<1>5. next # "reuse" /\ what.family \in ended => what.late
  BY <1>1, <1>4 DEF Inv, EndedIn
<1>6. UNCHANGED <<tokens, ended>> /\ Starts(r, "refresh", next, what)
  BY <1>1 DEF database, history
<1>7. "refresh" \in Operation /\ next \in Place /\ next # "issue"
  BY DEF Operation, Place
<1> HIDE DEF what
<1> QED BY <1>4, <1>5, <1>6, <1>7, RequestStarts

LEMMA LogoutCheckKeeps ==
  ASSUME Inv, NEW r \in Request, LogoutCheck(r)
  PROVE  Inv'
<1>1. PICK i \in DOMAIN tokens :
        /\ Starts(r, "logout", "family",
                  [Idle EXCEPT !.token = i,
                               !.family = IF tokens[i].live THEN tokens[i].family ELSE 0])
        /\ UNCHANGED <<database, spawned, socket, history>>
  BY DEF LogoutCheck
<1> DEFINE f == IF tokens[i].live THEN tokens[i].family ELSE 0
           what == [Idle EXCEPT !.token = i, !.family = f]
<1>2. tokens[i] \in TokenSet /\ i \in Nat
  BY DEF Inv, Typed
<1>3. f \in Nat
  BY <1>2 DEF TokenSet
<1>4. UNCHANGED <<tokens, ended>> /\ Starts(r, "logout", "family", what)
  BY <1>1 DEF database, history
<1> HIDE DEF f
<1>5. what \in RequestSet /\ what.token = i
  BY <1>2, <1>3 DEF Idle, RequestSet, Operation, Place
<1>6. "logout" \in Operation /\ "family" \in Place
  BY DEF Operation, Place
<1> HIDE DEF what
<1> QED BY <1>4, <1>5, <1>6, RequestStarts

\* The requests that start with nothing of a token in hand.
LEMMA OthersStart ==
  ASSUME Inv, NEW r \in Request,
         Login(r) \/ ListOthers(r) \/ ChangeCheck(r) \/ DisableCheck(r)
  PROVE  Inv'
<1>1. \/ ListOthers(r)
      \/ \E op \in {"login", "change", "disable"}, at \in {"issue", "update", "write"},
            what \in {Idle, [Idle EXCEPT !.current = TRUE]} :
           /\ Starts(r, op, at, what)
           /\ UNCHANGED <<tokens, ended>>
           /\ at = "issue" => op = "login"
  BY DEF Login, ChangeCheck, DisableCheck, database, history
<1>2. ASSUME NEW op \in {"login", "change", "disable"}, NEW at \in {"issue", "update", "write"},
             NEW what \in {Idle, [Idle EXCEPT !.current = TRUE]}, Starts(r, op, at, what),
             UNCHANGED <<tokens, ended>>, at = "issue" => op = "login"
      PROVE  Inv'
  <2>1. Idle \in RequestSet /\ [Idle EXCEPT !.current = TRUE] \in RequestSet
    BY DEF Idle, RequestSet, Operation, Place
  <2>2. op \in Operation /\ at \in Place /\ what \in RequestSet
    BY <2>1 DEF Operation, Place
  <2> HIDE DEF Idle
  <2> QED BY <1>2, <2>2, RequestStarts
<1>3. CASE ListOthers(r)
  <2>1. PICK a \in access :
          /\ Good(a)
          /\ Starts(r, "others", "rest",
                    [Idle EXCEPT !.family = a, !.listed = {f \in Families \ {a} : Active(f)}])
          /\ UNCHANGED <<database, spawned, socket, history>>
    BY <1>3 DEF ListOthers
  <2> DEFINE fs == {f \in Families \ {a} : Active(f)}
             what == [Idle EXCEPT !.family = a, !.listed = fs]
  <2>2. a \in Nat /\ fs \in SUBSET Nat
    <3>1. \A i \in DOMAIN tokens : tokens[i].family \in Nat
      <4>1. \A i \in DOMAIN tokens : tokens[i] \in TokenSet
        BY DEF Inv, Typed
      <4> QED BY <4>1 DEF TokenSet
    <3>2. PICK i \in DOMAIN tokens : tokens[i].family = a
      BY <2>1 DEF Good, Granted, Active
    <3> QED BY <3>1, <3>2 DEF Families
  <2>3. UNCHANGED <<tokens, ended>> /\ Starts(r, "others", "rest", what)
    BY <2>1 DEF database, history
  <2> HIDE DEF fs
  <2>4. what \in RequestSet
    BY <2>2 DEF Idle, RequestSet, Operation, Place
  <2>5. "others" \in Operation /\ "rest" \in Place
    BY DEF Operation, Place
  <2> HIDE DEF what
  <2> QED BY <2>3, <2>4, <2>5, RequestStarts
<1> QED BY <1>1, <1>2, <1>3

\* A new session: its family is one that nobody had.
LEMMA IssueKeeps ==
  ASSUME Inv, NEW r \in Request, Issue(r)
  PROVE  Inv'
<1> DEFINE f == LastFamily + 1
           t == [family |-> f, live |-> TRUE,
                 current |-> request[r].current, late |-> request[r].late]
           q == [request[r] EXCEPT !.at = "access", !.family = f]
<1>1. request[r] \in RequestSet /\ Sound(request[r], tokens, ended)
  BY DEF Inv, Typed
<1>2. f \in Nat /\ f \notin ended /\ \A g \in Families : g <= f
  BY NewFamily
<1>3. request[r].at = "issue" /\ request[r].op \notin {"refresh", "logout"}
  BY <1>1 DEF Issue, Sound
<1>4. /\ tokens' = Append(tokens, t) /\ UNCHANGED ended
      /\ request' = [request EXCEPT ![r] = q]
  BY DEF Issue, history
<1> HIDE DEF f
<1>5. request[r].current \in BOOLEAN /\ request[r].late \in BOOLEAN
  BY <1>1 DEF RequestSet
<1>6. t \in TokenSet /\ t.family = f
  BY <1>2, <1>5 DEF TokenSet
<1>7. q \in RequestSet /\ q.op = request[r].op /\ q.at = "access"
  BY <1>1, <1>2 DEF RequestSet, Place
<1> HIDE DEF t, q
<1>8. Sound(q, tokens, ended)
  BY <1>3, <1>7 DEF Sound
<1> QED BY <1>2, <1>4, <1>6, <1>7, <1>8, Addition

\* A rotation hands the token on.
LEMMA RenewKeeps ==
  ASSUME Inv, NEW r \in Request, Renew(r)
  PROVE  Inv'
<1> DEFINE old == tokens[request[r].token]
           t == [old EXCEPT !.live = TRUE, !.late = request[r].late]
           q == [request[r] EXCEPT !.at = "access"]
<1>1. request[r] \in RequestSet /\ Sound(request[r], tokens, ended)
  BY DEF Inv, Typed
<1>2. request[r].op = "refresh" /\ request[r].at = "renew"
  BY DEF Renew, At
<1>3. /\ request[r].token \in DOMAIN tokens /\ request[r].family = old.family
      /\ old.family \in ended => request[r].late
  BY <1>1, <1>2 DEF Sound
<1>4. old \in TokenSet /\ old.family \in Families
  BY <1>3 DEF Inv, Typed, Families
<1>5. /\ tokens' = Append(tokens, t) /\ UNCHANGED ended
      /\ request' = [request EXCEPT ![r] = q]
  BY DEF Renew, Goes, history
<1>6. request[r].late \in BOOLEAN
  BY <1>1 DEF RequestSet
<1>7. t \in TokenSet /\ t.family = old.family /\ t.late = request[r].late
  <2> HIDE DEF old
  <2> QED BY <1>4, <1>6 DEF TokenSet
<1>8. /\ q \in RequestSet /\ q.op = "refresh" /\ q.at = "access"
      /\ q.token = request[r].token /\ q.family = request[r].family
  BY <1>1, <1>2 DEF RequestSet, Place
<1> HIDE DEF t, q
<1>9. Sound(q, tokens, ended)
  BY <1>3, <1>8 DEF Sound
<1> HIDE DEF old
<1> QED BY <1>3, <1>4, <1>5, <1>7, <1>8, <1>9, Addition

\* A token that is dropped, or retired before it is handed on.
LEMMA RetireKeeps ==
  ASSUME Inv, UNCHANGED ended, NEW r \in Request, request[r].op = "refresh",
         tokens' = [tokens EXCEPT ![request[r].token].live = FALSE],
         Answers(r) \/ (request[r].at = "retire" /\ Goes(r, "renew"))
  PROVE  Inv'
<1>1. request[r] \in RequestSet /\ Sound(request[r], tokens, ended)
  BY DEF Inv, Typed
<1>2. request[r].token \in DOMAIN tokens
  BY <1>1 DEF Sound
<1>3. /\ tokens' \in Seq(TokenSet) /\ DOMAIN tokens' = DOMAIN tokens
      /\ \A j \in DOMAIN tokens : /\ tokens'[j].family = tokens[j].family
                                  /\ tokens'[j].late = tokens[j].late
                                  /\ tokens'[j].live => tokens[j].live
  BY <1>2, TokenRetired
<1>4. PICK q \in RequestSet : Sound(q, tokens, ended) /\ request' = [request EXCEPT ![r] = q]
  <2>1. CASE Answers(r)
    BY <2>1, IdleSound DEF Answers
  <2>2. CASE request[r].at = "retire" /\ Goes(r, "renew")
    <3> DEFINE q == [request[r] EXCEPT !.at = "renew"]
    <3>1. /\ q \in RequestSet /\ q.op = request[r].op /\ q.at = "renew"
          /\ q.token = request[r].token /\ q.family = request[r].family
          /\ q.late = request[r].late
      BY <1>1 DEF RequestSet, Place
    <3>2. request' = [request EXCEPT ![r] = q]
      BY <2>2 DEF Goes
    <3> HIDE DEF q
    <3>3. Sound(q, tokens, ended)
      BY <1>1, <2>2, <3>1 DEF Sound
    <3> QED BY <3>1, <3>2, <3>3
  <2> QED BY <2>1, <2>2
<1>5. Typed'
  BY <1>3, <1>4 DEF Inv, Typed
<1>6. Families' = Families
  BY <1>3, FamiliesKept
<1>7. Bounded' /\ Known'
  BY <1>6 DEF Inv, Bounded, Known
<1>8. EndedIn(tokens, ended)'
  BY <1>3 DEF Inv, EndedIn
<1>9. \A p \in Request : Sound(request'[p], tokens', ended')
  <2> TAKE p \in Request
  <2>1. Sound(request'[p], tokens, ended)
    BY <1>4 DEF Inv, Typed
  <2> QED BY <1>3, <2>1 DEF Sound
<1> QED BY <1>5, <1>7, <1>8, <1>9 DEF Inv

\* What revokes: the reuse of a token, a logout, a session ended by name, all but one, all.
LEMMA RevokingKeeps ==
  ASSUME Inv, NEW r \in Request,
         RevokeReused(r) \/ LogoutRevoke(r) \/ RevokeOthers(r) \/ RevokeAll(r)
  PROVE  Inv'
<1>1. request[r] \in RequestSet /\ Sound(request[r], tokens, ended)
  BY DEF Inv, Typed
<1>2. CASE RevokeReused(r)
  <2> DEFINE q == [request[r] EXCEPT !.at = "reused"]
             fs == {request[r].family}
  <2>1. request[r].op = "refresh"
    BY <1>2 DEF RevokeReused, At
  <2>2. /\ q \in RequestSet /\ q.op = "refresh" /\ q.at = "reused"
        /\ q.token = request[r].token /\ q.family = request[r].family
    BY <1>1, <2>1 DEF RequestSet, Place
  <2>3. CASE /\ tokens' = Revoked(fs)
             /\ ended' = ended \union fs
             /\ request' = Overtaken(r, fs, q)
    <3>1. fs \in SUBSET Families
      BY <1>1, <2>1 DEF Sound, Families
    <3>2. Sound(q, tokens', ended')
      <4>1. /\ DOMAIN tokens' = DOMAIN tokens
            /\ \A j \in DOMAIN tokens : tokens'[j].family = tokens[j].family
        BY <2>3, TokensRevoked DEF Inv, Typed
      <4> HIDE DEF q
      <4> QED BY <1>1, <2>1, <2>2, <4>1 DEF Sound
    <3> HIDE DEF q, fs
    <3> QED BY <2>2, <2>3, <3>1, <3>2, RequestRevokes
  <2>4. CASE Goes(r, "reused") /\ UNCHANGED <<tokens, ended>>
    <3>1. "reused" \in Place
      BY DEF Place
    <3> QED BY <2>4, <3>1, RequestGoes
  <2> QED BY <1>2, <2>3, <2>4 DEF RevokeReused
<1>3. CASE LogoutRevoke(r)
  <2> DEFINE f == tokens[request[r].token].family
  <2>1. tokens' = Revoked({f}) /\ ended' = ended \union {f} /\ request' = Overtaken(r, {f}, Idle)
    BY <1>3 DEF LogoutRevoke
  <2>2. {f} \in SUBSET Families
    BY <1>1, <1>3 DEF LogoutRevoke, At, Sound, Families
  <2> HIDE DEF f
  <2>3. Idle \in RequestSet /\ Sound(Idle, tokens', ended')
    BY IdleSound
  <2> QED BY <2>1, <2>2, <2>3, RequestRevokes
<1>4. CASE RevokeOthers(r)
  <2> DEFINE fs == {f \in Families \ {request[r].family} : Active(f)}
  <2>1. tokens' = Revoked(fs) /\ ended' = ended \union fs /\ request' = Overtaken(r, fs, Idle)
    BY <1>4 DEF RevokeOthers
  <2>2. fs \in SUBSET Families
    OBVIOUS
  <2> HIDE DEF fs
  <2>3. Idle \in RequestSet /\ Sound(Idle, tokens', ended')
    BY IdleSound
  <2> QED BY <2>1, <2>2, <2>3, RequestRevokes
<1>5. CASE RevokeAll(r)
  <2> DEFINE q == IF request[r].op = "change" THEN [request[r] EXCEPT !.at = "issue"] ELSE Idle
  <2>1. q \in RequestSet /\ \A ts, es : Sound(q, ts, es)
    <3>1. CASE request[r].op = "change"
      <4>1. q = [request[r] EXCEPT !.at = "issue"]
        BY <3>1
      <4>2. q \in RequestSet /\ q.op = "change"
        BY <1>1, <3>1, <4>1 DEF RequestSet, Place
      <4> HIDE DEF q
      <4> QED BY <4>2 DEF Sound
    <3>2. CASE request[r].op # "change"
      BY <3>2, IdleSound
    <3> QED BY <3>1, <3>2
  <2>2. CASE /\ tokens' = Revoked(Families)
             /\ ended' = ended \union Families
             /\ request' = Overtaken(r, Families, q)
    <3> HIDE DEF q
    <3> QED BY <2>1, <2>2, RequestRevokes
  <2>3. CASE request' = [request EXCEPT ![r] = q] /\ UNCHANGED <<tokens, ended>>
    <3> HIDE DEF q
    <3> QED BY <2>1, <2>3, RequestMoves
  <2> QED BY <1>5, <2>2, <2>3 DEF RevokeAll
<1> QED BY <1>2, <1>3, <1>4, <1>5

LEMMA RevokeSessionKeeps ==
  ASSUME Inv, RevokeSession
  PROVE  Inv'
<1>1. PICK f \in Families :
        /\ tokens' = Revoked({f})
        /\ ended' = ended \union {f}
        /\ request' = [q \in Request |-> [request[q] EXCEPT !.late = @ \/ Holds(q, {f})]]
  BY DEF RevokeSession
<1> DEFINE p(q) == [request[q] EXCEPT !.late = @ \/ Holds(q, {f})]
<1>2. \A q \in Request : p(q) \in RequestSet /\ Sound(p(q), tokens', ended')
  BY <1>1, OvertakenSound
<1>3. request' = [q \in Request |-> p(q)]
  BY <1>1
<1> HIDE DEF p
<1>4. request' \in [Request -> RequestSet] /\ \A q \in Request : Sound(request'[q], tokens', ended')
  BY <1>2, <1>3
<1> QED BY <1>1, <1>4, Revocation

\* A change of password leaves tokens and requests with an old password.
LEMMA UpdatePasswordKeeps ==
  ASSUME Inv, NEW r \in Request, UpdatePassword(r)
  PROVE  Inv'
<1> DEFINE t(i) == [tokens[i] EXCEPT !.current = FALSE]
           mine == [request[r] EXCEPT !.at = "version", !.current = TRUE]
           other(q) == [request[q] EXCEPT !.current = FALSE]
<1>1. /\ tokens' = [i \in DOMAIN tokens |-> t(i)] /\ UNCHANGED ended
      /\ request' = [q \in Request |-> IF q = r THEN mine ELSE other(q)]
      /\ request[r].op = "change"
  BY DEF UpdatePassword, At, history
<1>2. \A i \in DOMAIN tokens : /\ t(i) \in TokenSet /\ t(i).family = tokens[i].family
                               /\ t(i).late = tokens[i].late /\ t(i).live = tokens[i].live
  <2> TAKE i \in DOMAIN tokens
  <2>1. tokens[i] \in TokenSet
    BY DEF Inv, Typed
  <2> QED BY <2>1 DEF TokenSet
<1>3. /\ mine \in RequestSet
      /\ \A ts, es : Sound(mine, ts, es)
  <2>1. request[r] \in RequestSet
    BY DEF Inv, Typed
  <2>2. mine \in RequestSet /\ mine.at = "version" /\ mine.op = "change"
    BY <1>1, <2>1 DEF RequestSet, Place
  <2> HIDE DEF mine
  <2> QED BY <2>2 DEF Sound
<1>4. \A q \in Request : other(q) \in RequestSet /\ Sound(other(q), tokens, ended)
  <2> TAKE q \in Request
  <2>1. request[q] \in RequestSet /\ Sound(request[q], tokens, ended)
    BY DEF Inv, Typed
  <2>2. /\ other(q) \in RequestSet /\ other(q).op = request[q].op
        /\ other(q).at = request[q].at /\ other(q).family = request[q].family
        /\ other(q).token = request[q].token /\ other(q).late = request[q].late
    BY <2>1 DEF RequestSet
  <2> HIDE DEF other
  <2> QED BY <2>1, <2>2 DEF Sound
<1> HIDE DEF t, mine, other
<1>5. /\ tokens' \in Seq(TokenSet) /\ DOMAIN tokens' = DOMAIN tokens
      /\ \A i \in DOMAIN tokens : /\ tokens'[i].family = tokens[i].family
                                  /\ tokens'[i].late = tokens[i].late
                                  /\ tokens'[i].live = tokens[i].live
  <2>1. PICK n \in Nat : DOMAIN tokens = 1 .. n
    BY DEF Inv, Typed
  <2>2. tokens' \in Seq(TokenSet) /\ DOMAIN tokens' = DOMAIN tokens
    BY <1>1, <1>2, <2>1
  <2> QED BY <1>1, <1>2, <2>2
<1>6. request' \in [Request -> RequestSet]
  BY <1>1, <1>3, <1>4
<1>7. \A q \in Request : Sound(request'[q], tokens', ended')
  <2> TAKE q \in Request
  <2>1. CASE q = r
    BY <1>1, <1>3, <2>1
  <2>2. CASE q # r
    <3>1. Sound(request'[q], tokens, ended)
      BY <1>1, <1>4, <2>2
    <3> QED BY <1>1, <1>5, <3>1 DEF Sound
  <2> QED BY <2>1, <2>2
<1>8. Families' = Families
  BY <1>5, FamiliesKept
<1>9. Bounded' /\ Known'
  BY <1>1, <1>8 DEF Inv, Bounded, Known
<1>10. EndedIn(tokens, ended)'
  BY <1>1, <1>5 DEF Inv, EndedIn
<1> QED BY <1>5, <1>6, <1>7, <1>9, <1>10 DEF Inv, Typed

LEMMA RequestKeeps ==
  ASSUME Inv, NEW r \in Request, RequestStep(r)
  PROVE  Inv'
<1>1. CASE \/ Login(r) \/ ListOthers(r) \/ ChangeCheck(r) \/ DisableCheck(r)
  BY <1>1, OthersStart
<1>2. CASE FindToken(r)
  BY <1>2, FindTokenKeeps
<1>3. CASE LogoutCheck(r)
  BY <1>3, LogoutCheckKeeps
<1>4. CASE Issue(r)
  BY <1>4, IssueKeeps
<1>5. CASE Renew(r)
  BY <1>5, RenewKeeps
<1>6. CASE Retire(r)
  BY <1>6, RetireKeeps DEF Retire, At, history
<1>7. CASE Drop(r)
  <2>1. CASE tokens' = [tokens EXCEPT ![request[r].token].live = FALSE]
    BY <1>7, <2>1, RetireKeeps DEF Drop, At, history
  <2>2. CASE UNCHANGED tokens
    BY <1>7, <2>2, RequestAnswers DEF Drop, history
  <2> QED BY <1>7, <2>1, <2>2 DEF Drop
<1>8. CASE RevokeReused(r) \/ LogoutRevoke(r) \/ RevokeOthers(r) \/ RevokeAll(r)
  BY <1>8, RevokingKeeps
<1>9. CASE UpdatePassword(r)
  BY <1>9, UpdatePasswordKeeps
<1>10. CASE GrantAccess(r) \/ InvalidateReused(r) \/ GivesUp(r)
  BY <1>10, RequestAnswers DEF GrantAccess, InvalidateReused, GivesUp, history, database
<1>11. CASE LookAtUser(r)
  <2>1. UNCHANGED <<tokens, ended>> /\ (Goes(r, "retire") \/ Answers(r)) /\ request[r].at = "user"
    BY <1>11 DEF LookAtUser, At, database, history
  <2>2. "retire" \in Place
    BY DEF Place
  <2> QED BY <2>1, <2>2, RequestAnswers, RequestGoes
<1>12. CASE DisableWrite(r) \/ InvalidateVersion(r)
  <2>1. UNCHANGED <<tokens, ended>> /\ (Goes(r, "version") \/ Goes(r, "revoke"))
    BY <1>12 DEF DisableWrite, InvalidateVersion, history
  <2>2. "version" \in Place /\ "revoke" \in Place
    BY DEF Place
  <2> QED BY <2>1, <2>2, RequestGoes
<1> QED BY <1>1, <1>2, <1>3, <1>4, <1>5, <1>6, <1>7, <1>8, <1>9, <1>10, <1>11, <1>12
        DEF RequestStep

LEMMA NextInv ==
  ASSUME Inv, [Next]_vars
  PROVE  Inv'
<1>1. ASSUME UNCHANGED <<tokens, request, ended>>
      PROVE  Inv'
  <2>1. tokens' = tokens /\ request' = request /\ ended' = ended
    BY <1>1
  <2>2. Families' = Families
    BY <2>1 DEF Families
  <2>3. Typed' /\ Bounded' /\ Known'
    BY <2>1, <2>2 DEF Inv, Typed, Bounded, Known
  <2>4. (\A r \in Request : Sound(request[r], tokens, ended))'
    BY <2>1 DEF Inv
  <2>5. EndedIn(tokens, ended)'
    BY <2>1 DEF Inv
  <2> QED BY <2>3, <2>4, <2>5 DEF Inv
<1>2. CASE UNCHANGED vars
  BY <1>1, <1>2 DEF vars
<1>3. CASE LogoutByAccess \/ Block
  BY <1>1, <1>3 DEF LogoutByAccess, Block, database, history
<1>4. ASSUME NEW s \in Socket, Handshake(s) \/ Register(s) \/ Leave(s) \/ Recheck(s)
      PROVE  Inv'
  BY <1>1, <1>4 DEF Handshake, Register, Leave, Recheck, database, history
<1>5. ASSUME NEW x \in Target, Disconnect(x)
      PROVE  Inv'
  BY <1>1, <1>5 DEF Disconnect, database, history
<1>6. ASSUME NEW r \in Request, RequestStep(r)
      PROVE  Inv'
  BY <1>6, RequestKeeps
<1> QED BY <1>2, <1>3, <1>4, <1>5, <1>6, RevokeSessionKeeps DEF Next

\* controllers/auth.rs: a session that was ended has no live refresh token, whatever the
\* requests do afterwards, but one that a rotation had in hand when the session was ended.
THEOREM EndedSessionsStayEnded == Spec => []EndedStaysEnded
<1>1. Inv => EndedStaysEnded
  BY DEF Inv, EndedIn, EndedStaysEnded
<1> QED BY <1>1, InitInv, NextInv, PTL DEF Spec

-----------------------------------------------------------------------------
(****************************************************************************)
(* Passwords.  While no change of password is between its writes (Quiet),      *)
(* what is live or about to be was opened with the password in force, unless a *)
(* revocation overtook it.  A change that another one overtook before its own  *)
(* revocation leaves the last word to the other.                              *)
(****************************************************************************)
Changes(q) == q.op = "change" /\ q.at \in {"version", "revoke"}
Quiet == ~unrevoked /\ \A r \in Request : ~Changes(request[r])

TokensFresh(ts) ==
    \A i \in DOMAIN ts : ts[i].live => ts[i].current \/ ts[i].late

Renewed(q, ts) ==
    /\ q.at = "issue" => q.current \/ q.late
    /\ q.op = "refresh" /\ q.at \in {"user", "retire", "renew"} =>
            ts[q.token].current \/ q.late

Outdone ==
    \A r \in Request : Changes(request[r]) =>
        \/ request[r].current \/ request[r].late
        \/ \E p \in Request \ {r} : Changes(request[p])

FreshInv ==
    /\ Quiet => TokensFresh(tokens)
    /\ Quiet => \A r \in Request : Renewed(request[r], tokens)
    /\ ~unrevoked => Outdone

LEMMA InitFresh == Init => FreshInv
<1> SUFFICES ASSUME Init PROVE FreshInv
  OBVIOUS
<1>1. Idle.op = "none" /\ Idle.at = "idle"
  BY DEF Idle
<1>2. \A r \in Request : request[r] = Idle
  BY DEF Init
<1>3. \A r \in Request : ~Changes(request[r]) /\ Renewed(request[r], tokens)
  BY <1>1, <1>2 DEF Changes, Renewed
<1>4. TokensFresh(tokens)
  BY DEF Init, TokensFresh
<1> QED BY <1>3, <1>4 DEF FreshInv, Outdone

\* A step that begins and ends no change, and leaves nothing old behind.
LEMMA FreshKept ==
  ASSUME FreshInv, unrevoked' = unrevoked,
         \A p \in Request : Changes(request'[p]) <=> Changes(request[p]),
         \A p \in Request : Changes(request[p]) =>
            (request[p].current \/ request[p].late => request'[p].current \/ request'[p].late),
         Quiet => TokensFresh(tokens') /\ \A p \in Request : Renewed(request'[p], tokens')
  PROVE  FreshInv'
<1>1. Quiet' <=> Quiet
  BY DEF Quiet
<1>2. ~unrevoked' => Outdone'
  BY DEF FreshInv, Outdone
<1>3. Quiet' => TokensFresh(tokens') /\ \A p \in Request : Renewed(request'[p], tokens')
  BY <1>1
<1> QED BY <1>2, <1>3 DEF FreshInv, TokensFresh, Renewed

\* One request goes to another state.
LEMMA FreshMoves ==
  ASSUME Inv, FreshInv, UNCHANGED <<tokens, unrevoked>>, NEW r \in Request,
         NEW STATE q, q \in RequestSet, request' = [request EXCEPT ![r] = q],
         Changes(q) <=> Changes(request[r]),
         Changes(q) => q.current = request[r].current /\ q.late = request[r].late,
         Quiet => Renewed(q, tokens)
  PROVE  FreshInv'
<1>1. \A p \in Request : request'[p] = IF p = r THEN q ELSE request[p]
  BY DEF Inv, Typed
<1>2. \A p \in Request : Changes(request'[p]) <=> Changes(request[p])
  <2> TAKE p \in Request
  <2>1. CASE p = r
    BY <1>1, <2>1
  <2>2. CASE p # r
    BY <1>1, <2>2
  <2> QED BY <2>1, <2>2
<1>3. \A p \in Request : Changes(request[p]) =>
        (request[p].current \/ request[p].late => request'[p].current \/ request'[p].late)
  <2> TAKE p \in Request
  <2>1. CASE p = r
    BY <1>1, <2>1
  <2>2. CASE p # r
    BY <1>1, <2>2
  <2> QED BY <2>1, <2>2
<1>4. ASSUME Quiet
      PROVE  TokensFresh(tokens') /\ \A p \in Request : Renewed(request'[p], tokens')
  <2>1. TokensFresh(tokens) /\ \A p \in Request : Renewed(request[p], tokens)
    BY <1>4 DEF FreshInv
  <2>2. tokens' = tokens
    OBVIOUS
  <2>3. \A p \in Request : Renewed(request'[p], tokens)
    <3> TAKE p \in Request
    <3>1. CASE p = r
      BY <1>1, <1>4, <3>1
    <3>2. CASE p # r
      BY <1>1, <2>1, <3>2
    <3> QED BY <3>1, <3>2
  <2> QED BY <2>1, <2>2, <2>3
<1>5. unrevoked' = unrevoked
  OBVIOUS
<1> QED BY <1>2, <1>3, <1>4, <1>5, FreshKept

LEMMA IdleFresh == ~Changes(Idle) /\ \A ts : Renewed(Idle, ts)
  BY DEF Idle, Changes, Renewed

LEMMA FreshAnswers ==
  ASSUME Inv, FreshInv, UNCHANGED <<tokens, unrevoked>>, NEW r \in Request, Answers(r),
         ~Changes(request[r])
  PROVE  FreshInv'
<1>1. request' = [request EXCEPT ![r] = Idle]
  BY DEF Answers
<1>2. Idle \in RequestSet
  BY IdleSound
<1> QED BY <1>1, <1>2, IdleFresh, FreshMoves

\* A request moves on to a place that asks for nothing new.
LEMMA FreshGoes ==
  ASSUME Inv, FreshInv, UNCHANGED <<tokens, unrevoked>>, NEW r \in Request,
         NEW at \in Place \ {"issue"}, Goes(r, at),
         at \in {"user", "retire", "renew"} => request[r].at \in {"user", "retire", "renew"},
         request[r].op = "change" =>
            (at \in {"version", "revoke"} <=> request[r].at \in {"version", "revoke"})
  PROVE  FreshInv'
<1> DEFINE q == [request[r] EXCEPT !.at = at]
<1>1. request[r] \in RequestSet
  BY DEF Inv, Typed
<1>2. /\ q \in RequestSet /\ q.at = at /\ q.op = request[r].op /\ q.token = request[r].token
      /\ q.current = request[r].current /\ q.late = request[r].late
  BY <1>1 DEF RequestSet
<1>3. request' = [request EXCEPT ![r] = q]
  BY DEF Goes
<1> HIDE DEF q
<1>4. Changes(q) <=> Changes(request[r])
  BY <1>2 DEF Changes
<1>5. Quiet => Renewed(q, tokens)
  BY <1>2 DEF FreshInv, Renewed
<1> QED BY <1>2, <1>3, <1>4, <1>5, FreshMoves

\* A request starts: what it holds is new enough.
LEMMA FreshStarts ==
  ASSUME Inv, FreshInv, UNCHANGED <<tokens, unrevoked>>, NEW r \in Request,
         NEW op \in Operation, NEW at \in Place \ {"version", "revoke"},
         NEW STATE what, what \in RequestSet, Starts(r, op, at, what),
         Quiet => /\ at = "issue" => what.current \/ what.late
                  /\ op = "refresh" /\ at \in {"user", "retire", "renew"} =>
                        tokens[what.token].current \/ what.late
  PROVE  FreshInv'
<1> DEFINE q == [what EXCEPT !.op = op, !.at = at]
<1>1. /\ q \in RequestSet /\ q.op = op /\ q.at = at
      /\ q.token = what.token /\ q.current = what.current /\ q.late = what.late
  BY DEF RequestSet
<1>2. request' = [request EXCEPT ![r] = q] /\ request[r] = Idle
  BY DEF Starts
<1> HIDE DEF q
<1>3. ~Changes(q) /\ ~Changes(request[r])
  BY <1>1, <1>2, IdleFresh DEF Changes
<1>4. Quiet => Renewed(q, tokens)
  BY <1>1 DEF Renewed
<1> QED BY <1>1, <1>2, <1>3, <1>4, FreshMoves

LEMMA StartsFresh ==
  ASSUME Inv, FreshInv, NEW r \in Request,
         \/ Login(r) \/ ListOthers(r) \/ ChangeCheck(r) \/ DisableCheck(r)
         \/ FindToken(r) \/ LogoutCheck(r)
  PROVE  FreshInv'
<1> USE DEF database, history
<1>1. \A i \in DOMAIN tokens : tokens[i] \in TokenSet /\ i \in Nat
  BY DEF Inv, Typed
<1>2. \A i \in DOMAIN tokens : tokens[i].family \in Nat /\ tokens[i].late \in BOOLEAN
  BY <1>1 DEF TokenSet
<1>3. CASE Login(r)
  <2> DEFINE what == [Idle EXCEPT !.current = TRUE]
  <2>1. what \in RequestSet /\ what.current = TRUE
    BY DEF Idle, RequestSet, Operation, Place
  <2>2. Starts(r, "login", "issue", what) /\ UNCHANGED <<tokens, unrevoked>>
    BY <1>3 DEF Login
  <2>3. "login" \in Operation /\ "issue" \in Place
    BY DEF Operation, Place
  <2> HIDE DEF what
  <2> QED BY <2>1, <2>2, <2>3, FreshStarts
<1>4. CASE ListOthers(r)
  <2>1. PICK a \in access :
          /\ Good(a)
          /\ Starts(r, "others", "rest",
                    [Idle EXCEPT !.family = a, !.listed = {f \in Families \ {a} : Active(f)}])
          /\ UNCHANGED <<tokens, unrevoked>>
    BY <1>4 DEF ListOthers
  <2> DEFINE fs == {f \in Families \ {a} : Active(f)}
             what == [Idle EXCEPT !.family = a, !.listed = fs]
  <2>2. a \in Nat /\ fs \in SUBSET Nat
    BY <1>2, <2>1 DEF Good, Granted, Active, Families
  <2>3. Starts(r, "others", "rest", what)
    BY <2>1
  <2> HIDE DEF fs
  <2>4. what \in RequestSet
    BY <2>2 DEF Idle, RequestSet, Operation, Place
  <2>5. "others" \in Operation /\ "rest" \in Place
    BY DEF Operation, Place
  <2> HIDE DEF what
  <2> QED BY <2>1, <2>3, <2>4, <2>5, FreshStarts
<1>5. CASE ChangeCheck(r) \/ DisableCheck(r)
  <2>1. \/ Starts(r, "change", "update", Idle)
        \/ Starts(r, "disable", "write", Idle)
    BY <1>5 DEF ChangeCheck, DisableCheck
  <2>2. UNCHANGED <<tokens, unrevoked>>
    BY <1>5 DEF ChangeCheck, DisableCheck
  <2>3. {"change", "disable"} \subseteq Operation /\ {"update", "write"} \subseteq Place
    BY DEF Operation, Place
  <2>4. Idle \in RequestSet
    BY IdleSound
  <2> QED BY <2>1, <2>2, <2>3, <2>4, FreshStarts
<1>6. CASE FindToken(r)
  <2>1. PICK i \in DOMAIN tokens, next \in {"user", "reuse", "drop"} :
          /\ tokens[i].live \/ next = "reuse"
          /\ Starts(r, "refresh", next,
                    [Idle EXCEPT !.token = i, !.family = tokens[i].family, !.late = tokens[i].late])
          /\ UNCHANGED <<tokens, unrevoked>>
    BY <1>6 DEF FindToken
  <2> DEFINE what == [Idle EXCEPT !.token = i, !.family = tokens[i].family, !.late = tokens[i].late]
  <2>2. what \in RequestSet /\ what.token = i /\ what.late = tokens[i].late
    BY <1>1, <1>2 DEF Idle, RequestSet, Operation, Place
  <2>3. "refresh" \in Operation /\ next \in Place
    BY DEF Operation, Place
  <2>4. Starts(r, "refresh", next, what)
    BY <2>1
  <2> HIDE DEF what
  <2>5. Quiet /\ next # "reuse" => tokens[what.token].current \/ what.late
    BY <2>1, <2>2 DEF FreshInv, TokensFresh
  <2> QED BY <2>1, <2>2, <2>3, <2>4, <2>5, FreshStarts
<1>7. CASE LogoutCheck(r)
  <2>1. PICK i \in DOMAIN tokens :
          /\ Starts(r, "logout", "family",
                    [Idle EXCEPT !.token = i,
                                 !.family = IF tokens[i].live THEN tokens[i].family ELSE 0])
          /\ UNCHANGED <<tokens, unrevoked>>
    BY <1>7 DEF LogoutCheck
  <2> DEFINE f == IF tokens[i].live THEN tokens[i].family ELSE 0
             what == [Idle EXCEPT !.token = i, !.family = f]
  <2>2. f \in Nat /\ i \in Nat
    BY <1>1, <1>2
  <2>3. Starts(r, "logout", "family", what)
    BY <2>1
  <2> HIDE DEF f
  <2>4. what \in RequestSet
    BY <2>2 DEF Idle, RequestSet, Operation, Place
  <2>5. "logout" \in Operation /\ "family" \in Place
    BY DEF Operation, Place
  <2> HIDE DEF what
  <2> QED BY <2>1, <2>3, <2>4, <2>5, FreshStarts
<1> QED BY <1>3, <1>4, <1>5, <1>6, <1>7

\* A request that adds a token, and goes on to its access token.
LEMMA FreshAdds ==
  ASSUME Inv, FreshInv, unrevoked' = unrevoked, NEW r \in Request,
         NEW STATE t, t \in TokenSet, tokens' = Append(tokens, t),
         Quiet => t.current \/ t.late,
         \/ request' = [request EXCEPT ![r].at = "access"]
         \/ \E f : request' = [request EXCEPT ![r].at = "access", ![r].family = f],
         ~Changes(request[r])
  PROVE  FreshInv'
<1>1. tokens \in Seq(TokenSet)
  BY DEF Inv, Typed
<1>2. /\ DOMAIN tokens \subseteq DOMAIN tokens'
      /\ \A j \in DOMAIN tokens' : tokens'[j] = t \/ j \in DOMAIN tokens
      /\ \A j \in DOMAIN tokens : tokens'[j] = tokens[j]
  BY <1>1, TokenAdded
<1>3. /\ request'[r].at = "access"
      /\ \A p \in Request : p # r => request'[p] = request[p]
  BY DEF Inv, Typed, RequestSet
<1>4. \A p \in Request : Changes(request'[p]) <=> Changes(request[p])
  <2> TAKE p \in Request
  <2>1. CASE p = r
    BY <1>3, <2>1 DEF Changes
  <2>2. CASE p # r
    BY <1>3, <2>2
  <2> QED BY <2>1, <2>2
<1>5. \A p \in Request : Changes(request[p]) => request'[p] = request[p]
  BY <1>3
<1>6. ASSUME Quiet
      PROVE  TokensFresh(tokens') /\ \A p \in Request : Renewed(request'[p], tokens')
  <2>1. TokensFresh(tokens) /\ \A p \in Request : Renewed(request[p], tokens)
    BY <1>6 DEF FreshInv
  <2>2. TokensFresh(tokens')
    BY <1>2, <1>6, <2>1 DEF TokensFresh
  <2>3. \A p \in Request : Renewed(request'[p], tokens')
    <3> TAKE p \in Request
    <3>1. CASE p = r
      BY <1>3, <3>1 DEF Renewed
    <3>2. CASE p # r
      <4>1. request'[p] = request[p] /\ Renewed(request[p], tokens) /\ Sound(request[p], tokens, ended)
        BY <1>3, <2>1, <3>2 DEF Inv
      <4>2. \A j \in DOMAIN tokens : tokens'[j].current = tokens[j].current
        BY <1>2
      <4> QED BY <1>2, <4>1, <4>2 DEF Sound, Renewed
    <3> QED BY <3>1, <3>2
  <2> QED BY <2>2, <2>3
<1> QED BY <1>4, <1>5, <1>6, FreshKept

LEMMA AddingFresh ==
  ASSUME Inv, FreshInv, NEW r \in Request, Issue(r) \/ Renew(r)
  PROVE  FreshInv'
<1>1. request[r] \in RequestSet /\ Sound(request[r], tokens, ended)
  BY DEF Inv, Typed
<1>2. request[r].current \in BOOLEAN /\ request[r].late \in BOOLEAN
  BY <1>1 DEF RequestSet
<1>3. Quiet => Renewed(request[r], tokens)
  BY DEF FreshInv
<1>4. CASE Issue(r)
  <2> DEFINE f == LastFamily + 1
             t == [family |-> f, live |-> TRUE,
                   current |-> request[r].current, late |-> request[r].late]
  <2>1. /\ tokens' = Append(tokens, t) /\ unrevoked' = unrevoked
        /\ request' = [request EXCEPT ![r].at = "access", ![r].family = f]
        /\ request[r].at = "issue"
    BY <1>4 DEF Issue, history
  <2>2. f \in Nat
    BY NewFamily
  <2> HIDE DEF f
  <2>3. t \in TokenSet /\ t.current = request[r].current /\ t.late = request[r].late
    BY <1>2, <2>2 DEF TokenSet
  <2> HIDE DEF t
  <2>4. Quiet => t.current \/ t.late
    BY <1>3, <2>1, <2>3 DEF Renewed
  <2>5. ~Changes(request[r])
    BY <2>1 DEF Changes
  <2> QED BY <2>1, <2>3, <2>4, <2>5, FreshAdds
<1>5. CASE Renew(r)
  <2> DEFINE old == tokens[request[r].token]
             t == [old EXCEPT !.live = TRUE, !.late = request[r].late]
  <2>1. /\ tokens' = Append(tokens, t) /\ unrevoked' = unrevoked
        /\ request' = [request EXCEPT ![r].at = "access"]
        /\ request[r].op = "refresh" /\ request[r].at = "renew"
    BY <1>5 DEF Renew, At, Goes, history
  <2>2. old \in TokenSet
    BY <1>1, <2>1 DEF Inv, Typed, Sound
  <2>3. t \in TokenSet /\ t.current = old.current /\ t.late = request[r].late
    <3> HIDE DEF old
    <3> QED BY <1>2, <2>2 DEF TokenSet
  <2> HIDE DEF t
  <2>4. Quiet => t.current \/ t.late
    BY <1>3, <2>1, <2>3 DEF Renewed
  <2>5. ~Changes(request[r])
    BY <2>1 DEF Changes
  <2> HIDE DEF old
  <2> QED BY <2>1, <2>3, <2>4, <2>5, FreshAdds
<1> QED BY <1>4, <1>5

\* Tokens die, and requests become late or go where nothing of theirs matters.
LEMMA FreshDwindles ==
  ASSUME Inv, FreshInv, unrevoked' = unrevoked, DOMAIN tokens' = DOMAIN tokens,
         \A j \in DOMAIN tokens : /\ tokens'[j].current = tokens[j].current
                                  /\ tokens'[j].late = tokens[j].late
                                  /\ tokens'[j].live => tokens[j].live,
         \A p \in Request :
            \/ /\ request'[p].op = request[p].op /\ request'[p].token = request[p].token
               /\ request'[p].current = request[p].current
               /\ request[p].late => request'[p].late
               /\ \/ request'[p].at = request[p].at
                  \/ request[p].at = "retire" /\ request'[p].at = "renew"
            \/ /\ ~Changes(request[p]) /\ ~Changes(request'[p])
               /\ request'[p].at \notin {"issue", "user", "retire", "renew"}
  PROVE  FreshInv'
<1>1. \A p \in Request : Changes(request'[p]) <=> Changes(request[p])
  BY DEF Changes
<1>2. \A p \in Request : Changes(request[p]) =>
        (request[p].current \/ request[p].late => request'[p].current \/ request'[p].late)
  OBVIOUS
<1>3. ASSUME Quiet
      PROVE  TokensFresh(tokens') /\ \A p \in Request : Renewed(request'[p], tokens')
  <2>1. TokensFresh(tokens) /\ \A p \in Request : Renewed(request[p], tokens)
    BY <1>3 DEF FreshInv
  <2>2. TokensFresh(tokens')
    BY <2>1 DEF TokensFresh
  <2>3. \A p \in Request : Renewed(request'[p], tokens')
    <3> TAKE p \in Request
    <3>1. Renewed(request[p], tokens) /\ Sound(request[p], tokens, ended)
      BY <2>1 DEF Inv
    <3>2. CASE request'[p].at \notin {"issue", "user", "retire", "renew"}
      BY <3>2 DEF Renewed
    <3>3. CASE /\ request'[p].op = request[p].op /\ request'[p].token = request[p].token
               /\ request'[p].current = request[p].current
               /\ request[p].late => request'[p].late
               /\ \/ request'[p].at = request[p].at
                  \/ request[p].at = "retire" /\ request'[p].at = "renew"
      BY <3>1, <3>3 DEF Sound, Renewed
    <3> QED BY <3>2, <3>3
  <2> QED BY <2>2, <2>3
<1> QED BY <1>1, <1>2, <1>3, FreshKept

LEMMA RetiringFresh ==
  ASSUME Inv, FreshInv, NEW r \in Request, Retire(r) \/ Drop(r)
  PROVE  FreshInv'
<1>1. request[r] \in RequestSet /\ Sound(request[r], tokens, ended) /\ request[r].op = "refresh"
  BY DEF Inv, Typed, Retire, Drop, At
<1>2. UNCHANGED <<unrevoked, ended>> /\ ~Changes(request[r])
  BY <1>1 DEF Retire, Drop, history, Changes
<1>3. Idle \in RequestSet /\ Idle.at = "idle"
  BY DEF Idle, RequestSet, Operation, Place
<1>4. CASE tokens' = [tokens EXCEPT ![request[r].token].live = FALSE]
  <2>1. /\ DOMAIN tokens' = DOMAIN tokens
        /\ \A j \in DOMAIN tokens : /\ tokens'[j].current = tokens[j].current
                                    /\ tokens'[j].late = tokens[j].late
                                    /\ tokens'[j].live => tokens[j].live
    BY <1>1, <1>2, <1>4, TokenRetired DEF Sound
  <2>2. CASE Retire(r)
    <3>1. /\ request[r].at = "retire" /\ request'[r] = [request[r] EXCEPT !.at = "renew"]
          /\ \A p \in Request : p # r => request'[p] = request[p]
      BY <2>2 DEF Retire, At, Goes, Inv, Typed
    <3>2. /\ request'[r].op = request[r].op /\ request'[r].token = request[r].token
          /\ request'[r].current = request[r].current /\ request'[r].late = request[r].late
          /\ request'[r].at = "renew"
      BY <1>1, <3>1 DEF RequestSet
    <3>3. \A p \in Request :
            /\ request'[p].op = request[p].op /\ request'[p].token = request[p].token
            /\ request'[p].current = request[p].current
            /\ request[p].late => request'[p].late
            /\ \/ request'[p].at = request[p].at
               \/ request[p].at = "retire" /\ request'[p].at = "renew"
      <4> TAKE p \in Request
      <4>1. CASE p = r
        BY <3>1, <3>2, <4>1
      <4>2. CASE p # r
        BY <3>1, <4>2
      <4> QED BY <4>1, <4>2
    <3> QED BY <1>2, <2>1, <3>3, FreshDwindles
  <2>3. CASE Drop(r)
    <3>1. request' = [request EXCEPT ![r] = Idle]
      BY <2>3 DEF Drop, Answers
    <3>2. request'[r] = Idle /\ \A p \in Request : p # r => request'[p] = request[p]
      BY <3>1 DEF Inv, Typed
    <3>3. \A p \in Request :
            \/ /\ request'[p].op = request[p].op /\ request'[p].token = request[p].token
               /\ request'[p].current = request[p].current
               /\ request[p].late => request'[p].late
               /\ request'[p].at = request[p].at
            \/ /\ ~Changes(request[p]) /\ ~Changes(request'[p])
               /\ request'[p].at \notin {"issue", "user", "retire", "renew"}
      <4> TAKE p \in Request
      <4>1. CASE p = r
        BY <1>2, <1>3, <3>2, <4>1, IdleFresh
      <4>2. CASE p # r
        BY <3>2, <4>2
      <4> QED BY <4>1, <4>2
    <3> QED BY <1>2, <2>1, <3>3, FreshDwindles
  <2> QED BY <2>2, <2>3
<1>5. CASE Drop(r) /\ UNCHANGED tokens
  BY <1>2, <1>5, FreshAnswers DEF Drop
<1> QED BY <1>4, <1>5 DEF Retire, Drop

\* Requests that a revocation marks keep all else.
LEMMA MarkedKeeps ==
  ASSUME Inv, NEW STATE fs, NEW p \in Request,
         request'[p] = [request[p] EXCEPT !.late = @ \/ Holds(p, fs)]
  PROVE  /\ request'[p].op = request[p].op /\ request'[p].token = request[p].token
         /\ request'[p].current = request[p].current /\ request'[p].at = request[p].at
         /\ request'[p].late <=> request[p].late \/ Holds(p, fs)
<1>1. request[p] \in RequestSet
  BY DEF Inv, Typed
<1> DEFINE b == request[p].late \/ Holds(p, fs)
<1>2. request'[p] = [request[p] EXCEPT !.late = b]
  OBVIOUS
<1>3. b <=> request[p].late \/ Holds(p, fs)
  OBVIOUS
<1> HIDE DEF b
<1>4. /\ request'[p].op = request[p].op /\ request'[p].token = request[p].token
      /\ request'[p].current = request[p].current /\ request'[p].at = request[p].at
      /\ request'[p].late = b
  BY <1>1, <1>2 DEF RequestSet
<1> QED BY <1>3, <1>4

\* Families are revoked, by a request that is not a change and goes where nothing of it matters.
LEMMA FreshRevokes ==
  ASSUME Inv, FreshInv, unrevoked' = unrevoked, NEW STATE fs, tokens' = Revoked(fs),
         \A p \in Request :
            \/ request'[p] = [request[p] EXCEPT !.late = @ \/ Holds(p, fs)]
            \/ /\ ~Changes(request[p]) /\ ~Changes(request'[p])
               /\ request'[p].at \notin {"issue", "user", "retire", "renew"}
  PROVE  FreshInv'
<1>1. /\ DOMAIN tokens' = DOMAIN tokens
      /\ \A j \in DOMAIN tokens : /\ tokens'[j].current = tokens[j].current
                                  /\ tokens'[j].late = tokens[j].late
                                  /\ tokens'[j].live => tokens[j].live
  BY TokensRevoked DEF Inv, Typed
<1>2. \A p \in Request :
        \/ /\ request'[p].op = request[p].op /\ request'[p].token = request[p].token
           /\ request'[p].current = request[p].current
           /\ request[p].late => request'[p].late
           /\ request'[p].at = request[p].at
        \/ /\ ~Changes(request[p]) /\ ~Changes(request'[p])
           /\ request'[p].at \notin {"issue", "user", "retire", "renew"}
  <2> TAKE p \in Request
  <2>1. CASE request'[p] = [request[p] EXCEPT !.late = @ \/ Holds(p, fs)]
    <3>1. /\ request'[p].op = request[p].op /\ request'[p].token = request[p].token
          /\ request'[p].current = request[p].current /\ request'[p].at = request[p].at
          /\ request'[p].late <=> request[p].late \/ Holds(p, fs)
      BY <2>1, MarkedKeeps
    <3> QED BY <3>1
  <2>2. CASE ~(request'[p] = [request[p] EXCEPT !.late = @ \/ Holds(p, fs)])
    BY <2>2
  <2> QED BY <2>1, <2>2
<1> QED BY <1>1, <1>2, FreshDwindles

LEMMA RevokingFresh ==
  ASSUME Inv, FreshInv, NEW r \in Request,
         RevokeReused(r) \/ LogoutRevoke(r) \/ RevokeOthers(r)
  PROVE  FreshInv'
<1>1. request[r] \in RequestSet
  BY DEF Inv, Typed
<1>2. unrevoked' = unrevoked /\ ~Changes(request[r])
  BY DEF RevokeReused, LogoutRevoke, RevokeOthers, At, Changes
<1>3. ~Changes(Idle) /\ Idle.at \notin {"issue", "user", "retire", "renew"}
  BY IdleFresh DEF Idle
<1> DEFINE mine == [request[r] EXCEPT !.at = "reused"]
<1>4. mine \in RequestSet /\ mine.at = "reused" /\ ~Changes(mine)
  BY <1>1 DEF RequestSet, Place, Changes
<1>5. ASSUME NEW STATE fs, NEW STATE q, q \in {Idle, mine}, tokens' = Revoked(fs), request' = Overtaken(r, fs, q)
      PROVE  FreshInv'
  <2>1. ~Changes(q) /\ q.at \notin {"issue", "user", "retire", "renew"}
    BY <1>3, <1>4, <1>5
  <2>2. \A p \in Request :
          \/ request'[p] = [request[p] EXCEPT !.late = @ \/ Holds(p, fs)]
          \/ /\ ~Changes(request[p]) /\ ~Changes(request'[p])
             /\ request'[p].at \notin {"issue", "user", "retire", "renew"}
    <3> TAKE p \in Request
    <3>1. CASE p = r
      BY <1>2, <1>5, <2>1, <3>1 DEF Overtaken
    <3>2. CASE p # r
      BY <1>5, <3>2 DEF Overtaken
    <3> QED BY <3>1, <3>2
  <2> QED BY <1>2, <1>5, <2>2, FreshRevokes
<1>6. CASE RevokeReused(r)
  <2>1. CASE tokens' = Revoked({request[r].family}) /\ request' = Overtaken(r, {request[r].family}, mine)
    <3> HIDE DEF mine
    <3> QED BY <1>5, <2>1
  <2>2. CASE Goes(r, "reused") /\ UNCHANGED <<tokens, ended>>
    <3>1. request' = [request EXCEPT ![r] = mine]
      BY <2>2 DEF Goes
    <3>2. UNCHANGED <<tokens, unrevoked>>
      BY <1>2, <2>2
    <3> HIDE DEF mine
    <3>3. Renewed(mine, tokens)
      BY <1>4 DEF Renewed
    <3> QED BY <1>2, <1>4, <3>1, <3>2, <3>3, FreshMoves
  <2> QED BY <1>6, <2>1, <2>2 DEF RevokeReused
<1>7. CASE LogoutRevoke(r)
  BY <1>5, <1>7 DEF LogoutRevoke
<1>8. CASE RevokeOthers(r)
  BY <1>5, <1>8 DEF RevokeOthers
<1> QED BY <1>6, <1>7, <1>8

LEMMA RevokeSessionFresh ==
  ASSUME Inv, FreshInv, RevokeSession
  PROVE  FreshInv'
<1>1. PICK f \in Families :
        /\ tokens' = Revoked({f}) /\ unrevoked' = unrevoked
        /\ request' = [q \in Request |-> [request[q] EXCEPT !.late = @ \/ Holds(q, {f})]]
  BY DEF RevokeSession
<1>2. \A p \in Request : request'[p] = [request[p] EXCEPT !.late = @ \/ Holds(p, {f})]
  BY <1>1
<1> QED BY <1>1, <1>2, FreshRevokes

\* The revocation of everything kills what is old, and marks what a request still holds.
LEMMA RevokeAllFresh ==
  ASSUME Inv, FreshInv, NEW r \in Request, RevokeAll(r)
  PROVE  FreshInv'
<1>1. request[r].at = "revoke"
  BY DEF RevokeAll
<1> DEFINE q == IF request[r].op = "change" THEN [request[r] EXCEPT !.at = "issue"] ELSE Idle
<1>2. CASE unrevoked' = TRUE
  BY <1>2 DEF FreshInv, Quiet
<1>3. CASE /\ tokens' = Revoked(Families)
           /\ request' = Overtaken(r, Families, q)
           /\ unrevoked' = unrevoked
  <2>1. /\ DOMAIN tokens' = DOMAIN tokens
        /\ \A j \in DOMAIN tokens :
             tokens'[j].live => tokens[j].live /\ tokens[j].family \notin Families
    BY <1>3, TokensRevoked DEF Inv, Typed
  <2>2. TokensFresh(tokens')
    BY <2>1 DEF TokensFresh, Families
  <2>3. request'[r] = q
    BY <1>3 DEF Overtaken
  <2>4. \A p \in Request \ {r} :
          /\ request'[p].op = request[p].op /\ request'[p].at = request[p].at
          /\ request'[p].op \in {"login", "change", "refresh"} => request'[p].late
    <3> TAKE p \in Request \ {r}
    <3>1. request'[p] = [request[p] EXCEPT !.late = @ \/ Holds(p, Families)]
      BY <1>3 DEF Overtaken
    <3>2. /\ request'[p].op = request[p].op /\ request'[p].at = request[p].at
          /\ request'[p].late <=> request[p].late \/ Holds(p, Families)
      BY <3>1, MarkedKeeps
    <3>3. Sound(request[p], tokens, ended)
      BY DEF Inv
    <3>4. request[p].op \in {"login", "change", "refresh"} => Holds(p, Families)
      <4>1. CASE request[p].op = "refresh"
        <5>1. request[p].token \in DOMAIN tokens
              /\ request[p].family = tokens[request[p].token].family
          BY <3>3, <4>1 DEF Sound
        <5>2. request[p].family \in Families
          BY <5>1 DEF Families
        <5> QED BY <4>1, <5>2 DEF Holds
      <4>2. CASE request[p].op \in {"login", "change"}
        BY <4>2 DEF Holds
      <4> QED BY <4>1, <4>2
    <3> QED BY <3>2, <3>4
  <2>5. \A p \in Request \ {r} : Sound(request[p], tokens, ended)
    BY DEF Inv
  <2>6. \A p \in Request \ {r} : Renewed(request'[p], tokens')
    BY <2>4, <2>5 DEF Renewed, Sound
  <2>7. ~Changes(q) /\ (request[r].op # "change" => \A ts : Renewed(q, ts))
    <3>1. CASE request[r].op = "change"
      <4>1. q = [request[r] EXCEPT !.at = "issue"] /\ request[r] \in RequestSet
        BY <3>1 DEF Inv, Typed
      <4>2. q.at = "issue"
        BY <4>1 DEF RequestSet
      <4> HIDE DEF q
      <4> QED BY <3>1, <4>2 DEF Changes
    <3>2. CASE request[r].op # "change"
      BY <3>2, IdleFresh
    <3> QED BY <3>1, <3>2
  <2>8. ASSUME Quiet'
        PROVE  Renewed(q, tokens')
    <3>1. CASE request[r].op = "change"
      <4>1. \A p \in Request \ {r} : ~Changes(request[p])
        BY <2>4, <2>8 DEF Quiet, Changes
      <4>2. ~unrevoked /\ Changes(request[r])
        BY <1>1, <1>3, <2>8, <3>1 DEF Quiet, Changes
      <4>3. request[r].current \/ request[r].late
        BY <4>1, <4>2 DEF FreshInv, Outdone
      <4>4. q = [request[r] EXCEPT !.at = "issue"] /\ request[r] \in RequestSet
        BY <3>1 DEF Inv, Typed
      <4>5. q.current = request[r].current /\ q.late = request[r].late /\ q.op = "change"
        BY <3>1, <4>4 DEF RequestSet
      <4> HIDE DEF q
      <4> QED BY <4>3, <4>5 DEF Renewed
    <3>2. CASE request[r].op # "change"
      BY <2>7, <3>2
    <3> QED BY <3>1, <3>2
  <2> HIDE DEF q
  <2>9. Quiet' => \A p \in Request : Renewed(request'[p], tokens')
    <3> SUFFICES ASSUME Quiet', NEW p \in Request
                 PROVE  Renewed(request'[p], tokens')
      OBVIOUS
    <3>1. CASE p = r
      BY <2>3, <2>8, <3>1
    <3>2. CASE p # r
      BY <2>6, <3>2
    <3> QED BY <3>1, <3>2
  <2>10. Outdone'
    <3> SUFFICES ASSUME NEW p \in Request, Changes(request'[p])
                 PROVE  request'[p].current \/ request'[p].late
      BY DEF Outdone
    <3>1. p # r
      BY <2>3, <2>7
    <3> QED BY <2>4, <3>1 DEF Changes
  <2> QED BY <2>2, <2>9, <2>10 DEF FreshInv, TokensFresh, Renewed
<1> QED BY <1>2, <1>3 DEF RevokeAll

\* A change of password begins: until it is over nothing is said of the others.
LEMMA UpdatePasswordFresh ==
  ASSUME Inv, FreshInv, NEW r \in Request, UpdatePassword(r)
  PROVE  FreshInv'
<1>1. request'[r] = [request[r] EXCEPT !.at = "version", !.current = TRUE] /\ request[r].op = "change"
  BY DEF UpdatePassword, At
<1>2. request[r] \in RequestSet
  BY DEF Inv, Typed
<1>3. Changes(request'[r]) /\ request'[r].current
  <2>1. /\ request'[r].at = "version" /\ request'[r].op = request[r].op
        /\ request'[r].current = TRUE
    BY <1>1, <1>2 DEF RequestSet
  <2> QED BY <1>1, <2>1 DEF Changes
<1>4. ~Quiet'
  BY <1>3 DEF Quiet
<1>5. Outdone'
  <2> SUFFICES ASSUME NEW p \in Request, Changes(request'[p])
               PROVE  \/ request'[p].current \/ request'[p].late
                      \/ \E o \in Request \ {p} : Changes(request'[o])
    BY DEF Outdone
  <2>1. CASE p = r
    BY <1>3, <2>1
  <2>2. CASE p # r
    BY <1>3, <2>2
  <2> QED BY <2>1, <2>2
<1> QED BY <1>4, <1>5 DEF FreshInv

LEMMA RequestFresh ==
  ASSUME Inv, FreshInv, NEW r \in Request, RequestStep(r)
  PROVE  FreshInv'
<1>1. CASE \/ Login(r) \/ ListOthers(r) \/ ChangeCheck(r) \/ DisableCheck(r)
           \/ FindToken(r) \/ LogoutCheck(r)
  BY <1>1, StartsFresh
<1>2. CASE Issue(r) \/ Renew(r)
  BY <1>2, AddingFresh
<1>3. CASE Retire(r) \/ Drop(r)
  BY <1>3, RetiringFresh
<1>4. CASE RevokeReused(r) \/ LogoutRevoke(r) \/ RevokeOthers(r)
  BY <1>4, RevokingFresh
<1>5. CASE RevokeAll(r)
  BY <1>5, RevokeAllFresh
<1>6. CASE UpdatePassword(r)
  BY <1>6, UpdatePasswordFresh
<1>7. CASE GrantAccess(r) \/ InvalidateReused(r) \/ GivesUp(r)
  <2>1. UNCHANGED <<tokens, unrevoked>> /\ Answers(r) /\ ~Changes(request[r])
    BY <1>7 DEF GrantAccess, InvalidateReused, GivesUp, At, Changes, history, database
  <2> QED BY <2>1, FreshAnswers
<1>8. CASE LookAtUser(r)
  <2>1. /\ UNCHANGED <<tokens, unrevoked>> /\ (Goes(r, "retire") \/ Answers(r))
        /\ request[r].at = "user" /\ request[r].op = "refresh"
    BY <1>8 DEF LookAtUser, At, database, history
  <2>2. "retire" \in Place \ {"issue"} /\ ~Changes(request[r])
    BY <2>1 DEF Place, Changes
  <2> QED BY <2>1, <2>2, FreshAnswers, FreshGoes
<1>9. CASE DisableWrite(r)
  <2>1. /\ UNCHANGED <<tokens, unrevoked>> /\ Goes(r, "version") /\ request[r].op = "disable"
    BY <1>9 DEF DisableWrite, At, history
  <2>2. "version" \in Place \ {"issue"}
    BY DEF Place
  <2> QED BY <2>1, <2>2, FreshGoes
<1>10. CASE InvalidateVersion(r)
  <2>1. /\ UNCHANGED <<tokens, unrevoked>> /\ Goes(r, "revoke") /\ request[r].at = "version"
    BY <1>10 DEF InvalidateVersion, history
  <2>2. "revoke" \in Place \ {"issue"}
    BY DEF Place
  <2> QED BY <2>1, <2>2, FreshGoes
<1> QED BY <1>1, <1>2, <1>3, <1>4, <1>5, <1>6, <1>7, <1>8, <1>9, <1>10 DEF RequestStep

LEMMA NextFresh ==
  ASSUME Inv, FreshInv, [Next]_vars
  PROVE  FreshInv'
<1>1. ASSUME UNCHANGED <<tokens, request, unrevoked>>
      PROVE  FreshInv'
  <2>1. tokens' = tokens /\ request' = request /\ unrevoked' = unrevoked
    BY <1>1
  <2>2. (Quiet' <=> Quiet) /\ (Outdone' <=> Outdone)
    BY <2>1 DEF Quiet, Outdone
  <2> QED BY <2>1, <2>2 DEF FreshInv
<1>2. CASE UNCHANGED vars
  BY <1>1, <1>2 DEF vars
<1>3. CASE LogoutByAccess \/ Block
  BY <1>1, <1>3 DEF LogoutByAccess, Block, database, history
<1>4. ASSUME NEW s \in Socket, Handshake(s) \/ Register(s) \/ Leave(s) \/ Recheck(s)
      PROVE  FreshInv'
  BY <1>1, <1>4 DEF Handshake, Register, Leave, Recheck, database, history
<1>5. ASSUME NEW x \in Target, Disconnect(x)
      PROVE  FreshInv'
  BY <1>1, <1>5 DEF Disconnect, database, history
<1>6. ASSUME NEW r \in Request, RequestStep(r)
      PROVE  FreshInv'
  BY <1>6, RequestFresh
<1> QED BY <1>2, <1>3, <1>4, <1>5, <1>6, RevokeSessionFresh DEF Next

\* controllers/auth.rs: once every change of password is through, a live refresh token was
\* opened with the password in force, unless the change overtook it, or its revocation failed.
THEOREM OldPasswordsAreOut == Spec => []OldPasswordOpensNothing
<1>1. FreshInv => OldPasswordOpensNothing
  BY DEF FreshInv, Quiet, TokensFresh, OldPasswordOpensNothing, Changing, Changes
<1>2. Inv /\ FreshInv /\ [Next]_vars => Inv' /\ FreshInv'
  BY NextInv, NextFresh
<1> QED BY <1>1, <1>2, InitInv, InitFresh, PTL DEF Spec

-----------------------------------------------------------------------------
(****************************************************************************)
(* Sockets.  A socket whose session was ended has somebody who will cut it     *)
(* off, for all that the requests hold to name it by (Numbered).              *)
(****************************************************************************)
\* The tokens and their families are numbered within the bound.
TokensNumbered(ts) ==
    /\ Len(ts) <= MaxTokens
    /\ \A i \in DOMAIN ts : ts[i].family \in 1 .. Len(ts)

\* What a request names there is; a logout names everyone, or the family of its token, and
\* who makes an access token has a family to make it for.
Numbered(q, ts) ==
    /\ q.family \in Target
    /\ q.token \in Target
    /\ q.listed \subseteq 1 .. MaxTokens
    /\ q.op = "logout" /\ q.at = "family" => q.family \in {Everyone, ts[q.token].family}
    /\ q.at = "access" => q.family # 0

SocketSet == [at : {"away", "shaken", "open", "over"}, family : Target, current : BOOLEAN,
              excused : BOOLEAN]

\* Somebody is still to cut s off: a task of its family or of everyone, or the request that
\* will spawn one.
CutAhead(s) ==
    \/ spawned[Everyone] > 0
    \/ spawned[socket[s].family] > 0
    \/ \E r \in Request : request[r].at = "reused"

Cut(s) ==
    socket[s].at \in {"shaken", "open"} /\ socket[s].family \in ended =>
        socket[s].excused \/ socket[s].family \in unlisted \/ CutAhead(s)

NumberInv ==
    /\ TokensNumbered(tokens)
    /\ \A r \in Request : Numbered(request[r], tokens)

SocketInv ==
    /\ allowed \in BOOLEAN
    /\ access \subseteq 1 .. MaxTokens
    /\ started \in Nat
    /\ spawned \in [Target -> Nat]
    /\ socket \in [Socket -> SocketSet]
    /\ unlisted \subseteq ended
    /\ unrevoked \in BOOLEAN
    /\ \A s \in Socket : Cut(s)

\* A request that rests names nothing.
LEMMA IdleNumbered ==
  ASSUME NEW ts
  PROVE  Numbered(Idle, ts) /\ Idle.at = "idle" /\ Idle.op = "none"
  BY SessionAssumption DEF Idle, Numbered, Target

LEMMA InitNumbered == Init => NumberInv /\ SocketInv
<1> SUFFICES ASSUME Init PROVE NumberInv /\ SocketInv
  OBVIOUS
<1>1. TokensNumbered(tokens)
  BY SessionAssumption DEF Init, TokensNumbered
<1>2. \A r \in Request : Numbered(request[r], tokens)
  BY IdleNumbered DEF Init
<1>3. Away \in SocketSet /\ Away.at = "away"
  BY SessionAssumption DEF Away, SocketSet, Target
<1>4. socket \in [Socket -> SocketSet] /\ \A s \in Socket : Cut(s)
  BY <1>3 DEF Init, Cut
<1>5. spawned \in [Target -> Nat] /\ access \subseteq 1 .. MaxTokens
  BY SessionAssumption DEF Init
<1> QED BY <1>1, <1>2, <1>4, <1>5 DEF Init, NumberInv, SocketInv

\* The last family is one that a token has.
LEMMA LastIsFamily ==
  ASSUME Inv, TokensNumbered(tokens)
  PROVE  LastFamily \in 1 .. Len(tokens)
<1>1. PICK n \in Families : \A g \in Families : g <= n
  BY DEF Inv, Bounded
<1>2. LastFamily \in Families
  BY <1>1 DEF LastFamily
<1> QED BY <1>2 DEF Families, TokensNumbered

\* Tokens are added and change; their families stay, and the numbers are within the bound.
TokensKept ==
    /\ DOMAIN tokens \subseteq DOMAIN tokens'
    /\ \A j \in DOMAIN tokens : tokens'[j].family = tokens[j].family
    /\ TokensNumbered(tokens')

\* Tokens that change and keep their families keep their numbers.
LEMMA SameTokens ==
  ASSUME tokens \in Seq(TokenSet), tokens' \in Seq(TokenSet), TokensNumbered(tokens),
         DOMAIN tokens' = DOMAIN tokens,
         \A j \in DOMAIN tokens : tokens'[j].family = tokens[j].family
  PROVE  TokensKept
<1>1. Len(tokens') = Len(tokens)
  OBVIOUS
<1> QED BY <1>1 DEF TokensKept, TokensNumbered

LEMMA NewToken ==
  ASSUME tokens \in Seq(TokenSet), TokensNumbered(tokens), Len(tokens) < MaxTokens,
         NEW STATE t, t \in TokenSet, t.family \in 1 .. Len(tokens) + 1,
         tokens' = Append(tokens, t)
  PROVE  TokensKept
<1>1. /\ tokens' \in Seq(TokenSet) /\ Len(tokens') = Len(tokens) + 1
      /\ DOMAIN tokens = 1 .. Len(tokens) /\ DOMAIN tokens' = 1 .. Len(tokens')
  OBVIOUS
<1>2. \A j \in DOMAIN tokens' : tokens'[j] = t \/ j \in DOMAIN tokens
  BY TokenAdded
<1>3. \A j \in DOMAIN tokens : tokens'[j] = tokens[j]
  BY TokenAdded
<1>4. \A j \in DOMAIN tokens' : tokens'[j].family \in 1 .. Len(tokens')
  <2> TAKE j \in DOMAIN tokens'
  <2>1. CASE tokens'[j] = t
    BY <1>1, <2>1
  <2>2. CASE j \in DOMAIN tokens
    BY <1>1, <1>3, <2>2 DEF TokensNumbered
  <2> QED BY <1>2, <2>1, <2>2
<1>5. Len(tokens') <= MaxTokens
  BY <1>1, SessionAssumption
<1> QED BY <1>1, <1>3, <1>4, <1>5 DEF TokensKept, TokensNumbered

LEMMA StepsOfTokens ==
  ASSUME Inv, TokensNumbered(tokens), [Next]_vars
  PROVE  TokensKept
<1>0. tokens \in Seq(TokenSet) /\ tokens' \in Seq(TokenSet)
  BY NextInv DEF Inv, Typed
<1>1. CASE UNCHANGED tokens
  BY <1>0, <1>1, SameTokens
<1>2. ASSUME NEW STATE fs, tokens' = Revoked(fs)
      PROVE  TokensKept
  <2>1. /\ DOMAIN tokens' = DOMAIN tokens
        /\ \A j \in DOMAIN tokens : tokens'[j].family = tokens[j].family
    BY <1>0, <1>2, TokensRevoked
  <2> QED BY <1>0, <2>1, SameTokens
<1>3. ASSUME NEW r \in Request, tokens' = [tokens EXCEPT ![request[r].token].live = FALSE]
      PROVE  TokensKept
  <2>1. /\ DOMAIN tokens' = DOMAIN tokens
        /\ \A j \in DOMAIN tokens : tokens'[j].family = tokens[j].family
    BY <1>0, <1>3 DEF TokenSet
  <2> QED BY <1>0, <2>1, SameTokens
<1>4. ASSUME NEW r \in Request, Issue(r)
      PROVE  TokensKept
  <2> DEFINE t == [family |-> LastFamily + 1, live |-> TRUE,
                   current |-> request[r].current, late |-> request[r].late]
  <2>1. Len(tokens) < MaxTokens /\ tokens' = Append(tokens, t)
    BY <1>4 DEF Issue
  <2>2. LastFamily \in 1 .. Len(tokens)
    BY LastIsFamily
  <2>3. request[r].current \in BOOLEAN /\ request[r].late \in BOOLEAN
    BY DEF Inv, Typed, RequestSet
  <2>4. LastFamily + 1 \in 1 .. Len(tokens) + 1
    BY <1>0, <2>2
  <2>5. t \in TokenSet /\ t.family \in 1 .. Len(tokens) + 1
    BY <2>3, <2>4 DEF TokenSet
  <2> HIDE DEF t
  <2> QED BY <1>0, <2>1, <2>5, NewToken
<1>5. ASSUME NEW r \in Request, Renew(r)
      PROVE  TokensKept
  <2> DEFINE old == tokens[request[r].token]
             t == [old EXCEPT !.live = TRUE, !.late = request[r].late]
  <2>1. Len(tokens) < MaxTokens /\ tokens' = Append(tokens, t) /\ request[r].op = "refresh"
    BY <1>5 DEF Renew, At
  <2>2. request[r].token \in DOMAIN tokens
    BY <2>1 DEF Inv, Sound
  <2>3. old \in TokenSet /\ old.family \in 1 .. Len(tokens)
    BY <1>0, <2>2 DEF TokensNumbered
  <2>4. request[r].late \in BOOLEAN
    BY DEF Inv, Typed, RequestSet
  <2> HIDE DEF old
  <2>5. t \in TokenSet /\ t.family = old.family
    BY <2>3, <2>4 DEF TokenSet
  <2>6. t.family \in 1 .. Len(tokens) + 1
    BY <1>0, <2>3, <2>5
  <2> HIDE DEF t
  <2> QED BY <1>0, <2>1, <2>5, <2>6, NewToken
<1>6. ASSUME NEW r \in Request, UpdatePassword(r)
      PROVE  TokensKept
  <2>1. /\ DOMAIN tokens' = DOMAIN tokens
        /\ \A j \in DOMAIN tokens : tokens'[j].family = tokens[j].family
    <3> DEFINE t(i) == [tokens[i] EXCEPT !.current = FALSE]
    <3>1. tokens' = [i \in DOMAIN tokens |-> t(i)]
      BY <1>6 DEF UpdatePassword
    <3>2. \A i \in DOMAIN tokens : t(i).family = tokens[i].family
      BY <1>0 DEF TokenSet
    <3> HIDE DEF t
    <3> QED BY <3>1, <3>2
  <2> QED BY <1>0, <2>1, SameTokens
<1>7. ASSUME NEW r \in Request, RequestStep(r)
      PROVE  TokensKept
  <2>1. CASE Login(r) \/ FindToken(r) \/ LogoutCheck(r) \/ ListOthers(r) \/ ChangeCheck(r)
             \/ DisableCheck(r) \/ LookAtUser(r) \/ GivesUp(r)
    BY <1>1, <2>1 DEF Login, FindToken, LogoutCheck, ListOthers, ChangeCheck, DisableCheck,
       LookAtUser, GivesUp, database
  <2>2. CASE GrantAccess(r) \/ InvalidateReused(r) \/ DisableWrite(r) \/ InvalidateVersion(r)
    BY <1>1, <2>2 DEF GrantAccess, InvalidateReused, DisableWrite, InvalidateVersion
  <2>3. CASE Drop(r) \/ Retire(r)
    BY <1>1, <1>3, <2>3 DEF Drop, Retire
  <2>4. CASE RevokeReused(r) \/ LogoutRevoke(r) \/ RevokeOthers(r) \/ RevokeAll(r)
    BY <1>1, <1>2, <2>4 DEF RevokeReused, LogoutRevoke, RevokeOthers, RevokeAll
  <2> QED BY <1>4, <1>5, <1>6, <1>7, <2>1, <2>2, <2>3, <2>4 DEF RequestStep
<1>8. CASE RevokeSession
  BY <1>2, <1>8 DEF RevokeSession
<1>9. CASE LogoutByAccess \/ Block
  BY <1>1, <1>9 DEF LogoutByAccess, Block, database
<1>10. ASSUME NEW s \in Socket, Handshake(s) \/ Register(s) \/ Leave(s) \/ Recheck(s)
       PROVE  TokensKept
  BY <1>1, <1>10 DEF Handshake, Register, Leave, Recheck, database
<1>11. ASSUME NEW x \in Target, Disconnect(x)
       PROVE  TokensKept
  BY <1>1, <1>11 DEF Disconnect, database
<1>12. CASE UNCHANGED vars
  BY <1>1, <1>12 DEF vars
<1> QED BY <1>7, <1>8, <1>9, <1>10, <1>11, <1>12 DEF Next

\* What a request names stays in the numbers while the tokens are kept, or it starts anew.
Renames(q, p) ==
    /\ q.family = p.family /\ q.token = p.token /\ q.listed = p.listed
    /\ q.op = "logout" /\ q.at = "family" => p.op = "logout" /\ p.at = "family"
    /\ q.at = "access" => p.at = "access"

LEMMA NumbersKept ==
  ASSUME NEW q, NEW p, NEW ts, NEW us,
         Numbered(p, ts), Renames(q, p),
         p.op = "logout" => p.token \in DOMAIN ts,
         \A j \in DOMAIN ts : us[j].family = ts[j].family
  PROVE  Numbered(q, us)
  BY DEF Numbered, Renames

LEMMA OneNumbered ==
  ASSUME Inv, NumberInv, TokensKept, NEW r \in Request, NEW STATE q,
         request' = [request EXCEPT ![r] = q], Numbered(q, tokens')
  PROVE  NumberInv'
<1>1. request \in [Request -> RequestSet]
  BY DEF Inv, Typed
<1>2. ASSUME NEW p \in Request, p # r PROVE Numbered(request'[p], tokens')
  <2>1. request'[p] = request[p]
    BY <1>1, <1>2
  <2>2. request[p].op = "logout" => request[p].token \in DOMAIN tokens
    BY DEF Inv, Sound
  <2>3. Renames(request'[p], request[p])
    BY <2>1 DEF Renames
  <2> QED BY <2>2, <2>3, NumbersKept DEF NumberInv, TokensKept
<1>3. Numbered(request'[r], tokens')
  BY <1>1
<1> QED BY <1>2, <1>3 DEF NumberInv, TokensKept

LEMMA AllRenamed ==
  ASSUME Inv, NumberInv, TokensKept,
         \A q \in Request : Numbered(request'[q], tokens') \/ Renames(request'[q], request[q])
  PROVE  NumberInv'
<1>1. ASSUME NEW p \in Request PROVE Numbered(request'[p], tokens')
  <2>1. request[p].op = "logout" => request[p].token \in DOMAIN tokens
    BY DEF Inv, Sound
  <2> QED BY <2>1, NumbersKept DEF NumberInv, TokensKept
<1> QED BY <1>1 DEF NumberInv, TokensKept

LEMMA AnswerNumbered ==
  ASSUME Inv, NumberInv, TokensKept, NEW r \in Request, Answers(r)
  PROVE  NumberInv'
  BY IdleNumbered, OneNumbered DEF Answers

LEMMA GoNumbered ==
  ASSUME Inv, NumberInv, TokensKept, NEW r \in Request, NEW at, at \notin {"family", "access"}, Goes(r, at)
  PROVE  NumberInv'
<1>1. request \in [Request -> RequestSet]
  BY DEF Inv, Typed
<1>2. \A q \in Request : Renames(request'[q], request[q])
  BY <1>1 DEF Goes, Renames, RequestSet
<1> QED BY <1>2, AllRenamed

\* Those a revocation overtakes name what they named.
LEMMA OvertakenNumbered ==
  ASSUME Inv, NumberInv, TokensKept, NEW r \in Request, NEW STATE fs, NEW STATE next,
         request' = Overtaken(r, fs, next),
         Numbered(next, tokens') \/ Renames(next, request[r])
  PROVE  NumberInv'
<1>1. request \in [Request -> RequestSet]
  BY DEF Inv, Typed
<1> DEFINE p(q) == [request[q] EXCEPT !.late = @ \/ Holds(q, fs)]
<1>2. \A q \in Request : Renames(p(q), request[q])
  BY <1>1 DEF Renames, RequestSet
<1>3. request' = [q \in Request |-> IF q = r THEN next ELSE p(q)]
  BY DEF Overtaken
<1> HIDE DEF p
<1>4. \A q \in Request : Numbered(request'[q], tokens') \/ Renames(request'[q], request[q])
  BY <1>2, <1>3
<1> QED BY <1>4, AllRenamed

LEMMA StartNumbered ==
  ASSUME Inv, NumberInv, TokensKept, NEW r \in Request, NEW STATE what, NEW op, NEW at,
         Starts(r, op, at, what), at # "access", what \in RequestSet,
         what.family \in Target, what.token \in Target, what.listed \subseteq 1 .. MaxTokens,
         op = "logout" => what.family \in {Everyone, tokens'[what.token].family}
  PROVE  NumberInv'
<1> DEFINE q == [what EXCEPT !.op = op, !.at = at]
<1>1. /\ q.family = what.family /\ q.token = what.token /\ q.listed = what.listed
      /\ q.op = op /\ q.at = at
  BY DEF RequestSet
<1>2. request' = [request EXCEPT ![r] = q]
  BY DEF Starts
<1> HIDE DEF q
<1>3. Numbered(q, tokens')
  BY <1>1 DEF Numbered
<1> QED BY <1>2, <1>3, OneNumbered

\* The numbers of the tokens are those a request may name.
LEMMA TokenNumber ==
  ASSUME Inv, NumberInv, NEW i \in DOMAIN tokens
  PROVE  i \in Target /\ tokens[i].family \in Target \ {0}
<1>1. tokens \in Seq(TokenSet) /\ i \in 1 .. Len(tokens) /\ Len(tokens) <= MaxTokens
      /\ tokens[i].family \in 1 .. Len(tokens)
  BY DEF Inv, Typed, NumberInv, TokensNumbered
<1> QED BY <1>1, SessionAssumption DEF Target

LEMMA FamilyNumber ==
  ASSUME Inv, NumberInv
  PROVE  Families \subseteq 1 .. MaxTokens
<1>1. \A i \in DOMAIN tokens : tokens[i].family \in 1 .. MaxTokens
  BY TokenNumber, SessionAssumption DEF Target
<1> QED BY <1>1 DEF Families

LEMMA StartsNumbered ==
  ASSUME Inv, NumberInv, TokensKept, NEW r \in Request,
         \/ Login(r) \/ ListOthers(r) \/ ChangeCheck(r) \/ DisableCheck(r)
         \/ FindToken(r) \/ LogoutCheck(r)
  PROVE  NumberInv'
<1>0. /\ Idle \in RequestSet /\ Idle.family = 0 /\ Idle.token = 0 /\ Idle.listed = {}
      /\ 0 \in Target
  BY IdleSound, SessionAssumption DEF Idle, Target
<1>1. CASE Login(r)
  <2> DEFINE what == [Idle EXCEPT !.current = TRUE]
  <2>1. /\ what \in RequestSet /\ what.family = 0 /\ what.token = 0 /\ what.listed = {}
    BY <1>0 DEF Idle, RequestSet
  <2>2. Starts(r, "login", "issue", what)
    BY <1>1 DEF Login
  <2> HIDE DEF what
  <2> QED BY <1>0, <2>1, <2>2, StartNumbered
<1>2. CASE ChangeCheck(r) \/ DisableCheck(r)
  <2>1. \E op \in {"change", "disable"}, at \in {"update", "write"} : Starts(r, op, at, Idle)
    BY <1>2 DEF ChangeCheck, DisableCheck
  <2> QED BY <1>0, <2>1, StartNumbered
<1>3. CASE ListOthers(r)
  <2>1. PICK a \in access :
          /\ Good(a)
          /\ Starts(r, "others", "rest",
                    [Idle EXCEPT !.family = a, !.listed = {f \in Families \ {a} : Active(f)}])
    BY <1>3 DEF ListOthers
  <2> DEFINE fs == {f \in Families \ {a} : Active(f)}
             what == [Idle EXCEPT !.family = a, !.listed = fs]
  <2>2. a \in Target /\ fs \subseteq 1 .. MaxTokens /\ a \in Nat /\ fs \in SUBSET Nat
    <3>1. a \in Families
      BY <2>1 DEF Good, Granted, Active, Families
    <3> QED BY <3>1, FamilyNumber, SessionAssumption DEF Target
  <2>3. Starts(r, "others", "rest", what)
    BY <2>1
  <2> HIDE DEF fs
  <2>4. what \in RequestSet /\ what.family = a /\ what.token = 0 /\ what.listed = fs
    BY <1>0, <2>2 DEF Idle, RequestSet
  <2> HIDE DEF what
  <2> QED BY <1>0, <2>2, <2>3, <2>4, StartNumbered
<1>4. CASE FindToken(r)
  <2>1. PICK i \in DOMAIN tokens, next \in {"user", "reuse", "drop"} :
          Starts(r, "refresh", next,
                 [Idle EXCEPT !.token = i, !.family = tokens[i].family, !.late = tokens[i].late])
    BY <1>4 DEF FindToken
  <2> DEFINE what == [Idle EXCEPT !.token = i, !.family = tokens[i].family, !.late = tokens[i].late]
  <2>2. tokens[i] \in TokenSet /\ i \in Nat
    BY DEF Inv, Typed
  <2>3. tokens[i].family \in Nat /\ tokens[i].late \in BOOLEAN
    BY <2>2 DEF TokenSet
  <2>4. /\ what \in RequestSet /\ what.token = i /\ what.family = tokens[i].family
        /\ what.listed = {}
    BY <2>2, <2>3 DEF Idle, RequestSet, Operation, Place
  <2>5. Starts(r, "refresh", next, what)
    BY <2>1
  <2> HIDE DEF what
  <2> QED BY <2>4, <2>5, TokenNumber, StartNumbered
<1>5. CASE LogoutCheck(r)
  <2>1. PICK i \in DOMAIN tokens :
          Starts(r, "logout", "family",
                 [Idle EXCEPT !.token = i,
                              !.family = IF tokens[i].live THEN tokens[i].family ELSE 0])
    BY <1>5 DEF LogoutCheck
  <2> DEFINE f == IF tokens[i].live THEN tokens[i].family ELSE 0
             what == [Idle EXCEPT !.token = i, !.family = f]
  <2>2. tokens[i] \in TokenSet /\ i \in Nat
    BY DEF Inv, Typed
  <2>3. f \in Nat /\ f \in {0, tokens[i].family} /\ f \in Target
    BY <1>0, <2>2, TokenNumber DEF TokenSet
  <2>4. Starts(r, "logout", "family", what)
    BY <2>1
  <2> HIDE DEF f
  <2>5. what \in RequestSet /\ what.token = i /\ what.family = f /\ what.listed = {}
    BY <2>2, <2>3 DEF Idle, RequestSet, Operation, Place
  <2> HIDE DEF what
  <2>6. what.family \in {Everyone, tokens'[what.token].family}
    BY <2>3, <2>5 DEF TokensKept, Everyone
  <2> QED BY <2>3, <2>4, <2>5, <2>6, TokenNumber, StartNumbered
<1> QED BY <1>1, <1>2, <1>3, <1>4, <1>5

LEMMA RequestNumbered ==
  ASSUME Inv, NumberInv, TokensKept, NEW r \in Request, RequestStep(r)
  PROVE  NumberInv'
<1>1. request \in [Request -> RequestSet]
  BY DEF Inv, Typed
<1>2. CASE Issue(r)
  <2> DEFINE f == LastFamily + 1
             q == [request[r] EXCEPT !.at = "access", !.family = f]
  <2>1. request' = [request EXCEPT ![r] = q] /\ Len(tokens) < MaxTokens
    BY <1>2 DEF Issue
  <2>2. LastFamily \in 1 .. Len(tokens) /\ Len(tokens) \in Nat
    BY LastIsFamily DEF NumberInv, Inv, Typed
  <2>3. f \in Target /\ f # 0
    BY <2>1, <2>2, SessionAssumption DEF Target
  <2> HIDE DEF f
  <2>4. q.family = f /\ q.token = request[r].token /\ q.listed = request[r].listed
        /\ q.at = "access"
    BY <1>1 DEF RequestSet
  <2> HIDE DEF q
  <2>5. Numbered(q, tokens')
    BY <2>3, <2>4 DEF NumberInv, Numbered
  <2> QED BY <2>1, <2>5, OneNumbered
<1>3. CASE RevokeReused(r) \/ LogoutRevoke(r) \/ RevokeOthers(r)
  <2>2. Renames([request[r] EXCEPT !.at = "reused"], request[r])
    BY <1>1 DEF Renames, RequestSet
  <2>3. ASSUME NEW STATE fs, request' = Overtaken(r, fs, Idle) PROVE NumberInv'
    BY <2>3, IdleNumbered, OvertakenNumbered
  <2> HIDE DEF Idle
  <2>4. CASE LogoutRevoke(r)
    BY <2>3, <2>4 DEF LogoutRevoke
  <2>5. CASE RevokeOthers(r)
    BY <2>3, <2>5 DEF RevokeOthers
  <2>6. CASE RevokeReused(r)
    BY <2>2, <2>6, GoNumbered, OvertakenNumbered DEF RevokeReused
  <2> QED BY <1>3, <2>4, <2>5, <2>6
<1>4. CASE RevokeAll(r)
  <2> DEFINE q == IF request[r].op = "change" THEN [request[r] EXCEPT !.at = "issue"] ELSE Idle
  <2>1. Numbered(q, tokens') \/ Renames(q, request[r])
    BY <1>1, IdleNumbered DEF Renames, RequestSet
  <2>2. request' = Overtaken(r, Families, q) \/ request' = [request EXCEPT ![r] = q]
    BY <1>4 DEF RevokeAll
  <2> HIDE DEF q
  <2>3. CASE request' = [request EXCEPT ![r] = q]
    <3>1. \A p \in Request : Numbered(request'[p], tokens') \/ Renames(request'[p], request[p])
      BY <1>1, <2>1, <2>3 DEF Renames
    <3> QED BY <3>1, AllRenamed
  <2> QED BY <2>1, <2>2, <2>3, OvertakenNumbered
<1>5. CASE UpdatePassword(r)
  <2>1. \A q \in Request : Renames(request'[q], request[q])
    <3> DEFINE mine == [request[r] EXCEPT !.at = "version", !.current = TRUE]
               other(q) == [request[q] EXCEPT !.current = FALSE]
    <3>1. request' = [q \in Request |-> IF q = r THEN mine ELSE other(q)]
      BY <1>5 DEF UpdatePassword
    <3>2. Renames(mine, request[r]) /\ \A q \in Request : Renames(other(q), request[q])
      BY <1>1 DEF Renames, RequestSet
    <3> HIDE DEF mine, other
    <3> QED BY <3>1, <3>2
  <2> QED BY <2>1, AllRenamed
<1>6. CASE GrantAccess(r) \/ Drop(r) \/ InvalidateReused(r) \/ GivesUp(r)
  BY <1>6, AnswerNumbered DEF GrantAccess, Drop, InvalidateReused, GivesUp
<1>7. CASE LookAtUser(r) \/ Retire(r) \/ DisableWrite(r) \/ InvalidateVersion(r)
  BY <1>7, AnswerNumbered, GoNumbered DEF LookAtUser, Retire, DisableWrite, InvalidateVersion
<1>8. CASE Renew(r)
  <2> DEFINE q == [request[r] EXCEPT !.at = "access"]
  <2>1. request' = [request EXCEPT ![r] = q] /\ request[r].op = "refresh"
    BY <1>8 DEF Renew, At, Goes
  <2>2. request[r].family = tokens[request[r].token].family /\ request[r].token \in DOMAIN tokens
    BY <2>1 DEF Inv, Sound
  <2>3. request[r].family # 0
    BY <2>2, TokenNumber
  <2>4. q.family = request[r].family /\ q.token = request[r].token /\ q.listed = request[r].listed
        /\ q.at = "access"
    BY <1>1 DEF RequestSet
  <2> HIDE DEF q
  <2>5. Numbered(q, tokens')
    BY <2>3, <2>4 DEF NumberInv, Numbered
  <2> QED BY <2>1, <2>5, OneNumbered
<1> QED BY <1>2, <1>3, <1>4, <1>5, <1>6, <1>7, <1>8, StartsNumbered DEF RequestStep

LEMMA NextNumbered ==
  ASSUME Inv, NumberInv, [Next]_vars
  PROVE  NumberInv'
<1>0. TokensKept
  BY StepsOfTokens DEF NumberInv
<1>1. CASE UNCHANGED request
  <2>1. \A q \in Request : Renames(request'[q], request[q])
    BY <1>1 DEF Renames
  <2> QED BY <1>0, <2>1, AllRenamed
<1>2. ASSUME NEW r \in Request, RequestStep(r) PROVE NumberInv'
  BY <1>0, <1>2, RequestNumbered
<1>3. CASE RevokeSession
  <2>1. request \in [Request -> RequestSet]
    BY DEF Inv, Typed
  <2>2. PICK f \in Families :
          request' = [q \in Request |-> [request[q] EXCEPT !.late = @ \/ Holds(q, {f})]]
    BY <1>3 DEF RevokeSession
  <2> DEFINE p(q) == [request[q] EXCEPT !.late = @ \/ Holds(q, {f})]
  <2>3. \A q \in Request : Renames(p(q), request[q])
    BY <2>1 DEF Renames, RequestSet
  <2>4. request' = [q \in Request |-> p(q)]
    BY <2>2
  <2> HIDE DEF p
  <2> QED BY <1>0, <2>3, <2>4, AllRenamed
<1>4. CASE LogoutByAccess \/ Block \/ UNCHANGED vars
  BY <1>1, <1>4 DEF LogoutByAccess, Block, vars
<1>5. ASSUME NEW s \in Socket, Handshake(s) \/ Register(s) \/ Leave(s) \/ Recheck(s)
      PROVE  NumberInv'
  BY <1>1, <1>5 DEF Handshake, Register, Leave, Recheck
<1>6. ASSUME NEW x \in Target, Disconnect(x) PROVE NumberInv'
  BY <1>1, <1>6 DEF Disconnect
<1> QED BY <1>2, <1>3, <1>4, <1>5, <1>6 DEF Next

-----------------------------------------------------------------------------
\* The operations start where no request rests any more.
Begins(r) ==
    Login(r) \/ FindToken(r) \/ LogoutCheck(r) \/ ListOthers(r) \/ ChangeCheck(r) \/ DisableCheck(r)

LEMMA BeginsAtRest ==
  ASSUME NEW r \in Request, Begins(r)
  PROVE  request[r] = Idle /\ started' = started + 1
<1>1. CASE Login(r) \/ ListOthers(r) \/ ChangeCheck(r) \/ DisableCheck(r)
  BY <1>1 DEF Login, ListOthers, ChangeCheck, DisableCheck, Starts
<1>2. CASE FindToken(r)
  BY <1>2 DEF FindToken, Starts
<1>3. CASE LogoutCheck(r)
  BY <1>3 DEF LogoutCheck, Starts
<1> QED BY <1>1, <1>2, <1>3 DEF Begins

\* Only InvalidateReused takes a request from where it is about to spawn.
LEMMA ReusedStays ==
  ASSUME Inv, NEW r \in Request, RequestStep(r), ~InvalidateReused(r),
         \E q \in Request : request[q].at = "reused"
  PROVE  \E q \in Request : request'[q].at = "reused"
<1>1. request \in [Request -> RequestSet]
  BY DEF Inv, Typed
<1>2. PICK q \in Request : request[q].at = "reused"
  OBVIOUS
<1>3. request[r].at # "reused" /\ q # r
  <2>1. CASE Begins(r)
    BY <1>2, <2>1, BeginsAtRest DEF Idle
  <2>2. CASE ~Begins(r)
    BY <1>2, <2>2 DEF Begins, RequestStep, Issue, GrantAccess, Drop, LookAtUser, Retire, Renew,
       RevokeReused, LogoutRevoke, RevokeOthers, UpdatePassword, DisableWrite,
       InvalidateVersion, RevokeAll, GivesUp, At
  <2> QED BY <2>1, <2>2
<1>4. ASSUME NEW STATE p, request' = [request EXCEPT ![r] = p]
      PROVE  request'[q].at = "reused"
  BY <1>1, <1>2, <1>3, <1>4
<1>5. ASSUME NEW STATE fs, NEW STATE p, request' = Overtaken(r, fs, p)
      PROVE  request'[q].at = "reused"
  <2>1. request'[q] = [request[q] EXCEPT !.late = @ \/ Holds(q, fs)]
    BY <1>3, <1>5 DEF Overtaken
  <2> QED BY <1>1, <1>2, <2>1 DEF RequestSet
<1>6. ASSUME NEW op, NEW at, NEW STATE what, Starts(r, op, at, what)
      PROVE  request'[q].at = "reused"
  BY <1>4, <1>6 DEF Starts
<1>7. CASE Login(r) \/ ChangeCheck(r) \/ DisableCheck(r)
  BY <1>6, <1>7 DEF Login, ChangeCheck, DisableCheck
<1>8. CASE FindToken(r)
  BY <1>6, <1>8 DEF FindToken
<1>9. CASE LogoutCheck(r)
  BY <1>6, <1>9 DEF LogoutCheck
<1>10. CASE ListOthers(r)
  BY <1>6, <1>10 DEF ListOthers
<1>11. CASE Issue(r)
  BY <1>4, <1>11 DEF Issue
<1>12. CASE GrantAccess(r) \/ Drop(r) \/ LookAtUser(r) \/ GivesUp(r)
  BY <1>4, <1>12 DEF GrantAccess, Drop, LookAtUser, GivesUp, Answers, Goes
<1>13. CASE Retire(r) \/ Renew(r) \/ DisableWrite(r) \/ InvalidateVersion(r)
  BY <1>4, <1>13 DEF Retire, Renew, DisableWrite, InvalidateVersion, Goes
<1>14. CASE RevokeReused(r)
  BY <1>4, <1>5, <1>14 DEF RevokeReused, Goes
<1>15. CASE LogoutRevoke(r)
  BY <1>5, <1>15 DEF LogoutRevoke
<1>16. CASE RevokeOthers(r)
  BY <1>5, <1>16 DEF RevokeOthers
<1>17. CASE RevokeAll(r)
  BY <1>4, <1>5, <1>17 DEF RevokeAll
<1>18. CASE UpdatePassword(r)
  <2>1. request'[q] = [request[q] EXCEPT !.current = FALSE]
    BY <1>3, <1>18 DEF UpdatePassword
  <2> QED BY <1>1, <1>2, <2>1 DEF RequestSet
<1> QED BY <1>7, <1>8, <1>9, <1>10, <1>11, <1>12, <1>13, <1>14, <1>15, <1>16, <1>17, <1>18
        DEF RequestStep

\* What is spawned runs later.
LEMMA Spawned ==
  ASSUME SocketInv, NEW STATE xs, Spawn(xs)
  PROVE  /\ spawned' \in [Target -> Nat]
         /\ \A x \in Target : spawned[x] > 0 => spawned'[x] > 0
         /\ \A x \in Target : x \in xs => spawned'[x] > 0
  BY DEF Spawn, SocketInv

\* A socket that stays as it is is cut off as before, if what ends its session sees to it.
LEMMA CutStays ==
  ASSUME SocketInv, NEW s \in Socket,
         socket'[s].at \in {"shaken", "open"} => socket[s].at \in {"shaken", "open"},
         socket'[s].family = socket[s].family,
         socket[s].excused => socket'[s].excused,
         unlisted \subseteq unlisted',
         socket[s].family \in ended' \ ended => socket[s].family \in unlisted' \/ CutAhead(s)',
         CutAhead(s) => CutAhead(s)'
  PROVE  Cut(s)'
  BY DEF SocketInv, Cut

\* What of the sockets Cut sees.
SameSockets ==
    /\ socket' \in [Socket -> SocketSet]
    /\ \A s \in Socket :
        /\ socket'[s].at = socket[s].at
        /\ socket'[s].family = socket[s].family
        /\ socket'[s].excused = socket[s].excused

LEMMA SocketsSame ==
  ASSUME SocketInv, NewVersion \/ UNCHANGED socket
  PROVE  SameSockets
<1>1. CASE UNCHANGED socket
  BY <1>1 DEF SocketInv, SameSockets
<1>2. CASE NewVersion
  <2> DEFINE new(s) == [socket[s] EXCEPT !.current = FALSE]
  <2>1. socket' = [s \in Socket |-> new(s)]
    BY <1>2 DEF NewVersion
  <2>2. \A s \in Socket : new(s) \in SocketSet /\ new(s).at = socket[s].at
                          /\ new(s).family = socket[s].family /\ new(s).excused = socket[s].excused
    BY DEF SocketInv, SocketSet
  <2> HIDE DEF new
  <2> QED BY <2>1, <2>2 DEF SameSockets
<1> QED BY <1>1, <1>2

\* The rest of what SocketInv says of the types.
Stable ==
    /\ allowed' \in BOOLEAN
    /\ access' \subseteq 1 .. MaxTokens
    /\ started' \in Nat
    /\ unrevoked' \in BOOLEAN

\* The sockets stay, and the disconnects that were to come still are.
LEMMA SocketsRest ==
  ASSUME SocketInv, SameSockets, Stable,
         spawned' \in [Target -> Nat],
         unlisted \subseteq unlisted', unlisted' \subseteq ended',
         \A x \in Target : spawned[x] > 0 => spawned'[x] > 0,
         (\E q \in Request : request[q].at = "reused") =>
            spawned'[Everyone] > 0 \/ \E q \in Request : request'[q].at = "reused",
         \A f \in (ended' \ ended) \intersect Target :
            f \in unlisted' \/ spawned'[Everyone] > 0 \/ spawned'[f] > 0
              \/ \E q \in Request : request'[q].at = "reused"
  PROVE  SocketInv'
<1>1. ASSUME NEW s \in Socket PROVE Cut(s)'
  <2>1. socket[s].family \in Target /\ socket'[s].family = socket[s].family /\ Everyone \in Target
    BY SessionAssumption DEF SocketInv, SocketSet, SameSockets, Everyone, Target
  <2>2. CutAhead(s) => CutAhead(s)'
    BY <2>1 DEF CutAhead
  <2>3. socket[s].family \in ended' \ ended => socket[s].family \in unlisted' \/ CutAhead(s)'
    BY <2>1 DEF CutAhead
  <2> QED BY <2>1, <2>2, <2>3, CutStays DEF SameSockets
<1> QED BY <1>1 DEF SocketInv, Stable, SameSockets

\* As above, for a step that spawns for xs, or for nobody.
LEMMA SpawnRests ==
  ASSUME SocketInv, SameSockets, Stable,
         NEW STATE xs, Spawn(xs) \/ (UNCHANGED spawned /\ xs = {}),
         unlisted \subseteq unlisted', unlisted' \subseteq ended',
         (\E q \in Request : request[q].at = "reused") =>
            Everyone \in xs \/ \E q \in Request : request'[q].at = "reused",
         \A f \in (ended' \ ended) \intersect Target :
            f \in unlisted' \/ Everyone \in xs \/ f \in xs
              \/ \E q \in Request : request'[q].at = "reused"
  PROVE  SocketInv'
<1>1. /\ spawned' \in [Target -> Nat]
      /\ \A x \in Target : spawned[x] > 0 => spawned'[x] > 0
      /\ \A x \in Target : x \in xs => spawned'[x] > 0
  BY Spawned DEF SocketInv
<1>2. Everyone \in Target
  BY SessionAssumption DEF Everyone, Target
<1> QED BY <1>1, <1>2, SocketsRest

LEMMA RequestCuts ==
  ASSUME Inv, NumberInv, SocketInv, NEW r \in Request, RequestStep(r)
  PROVE  SocketInv'
<1>0. ~InvalidateReused(r) => ((\E q \in Request : request[q].at = "reused")
                                => \E q \in Request : request'[q].at = "reused")
  BY ReusedStays
<1>2. CASE Begins(r)
  <2>1. UNCHANGED <<database, spawned, socket, history>>
    BY <1>2 DEF Begins, Login, FindToken, LogoutCheck, ListOthers, ChangeCheck, DisableCheck
  <2>2. started' \in Nat
    BY <1>2, BeginsAtRest DEF SocketInv
  <2>3. /\ ~InvalidateReused(r) 
        /\ Stable /\ unlisted' \subseteq ended'
    <3>1. ~InvalidateReused(r)
      BY <1>2, BeginsAtRest DEF InvalidateReused, At, Idle
    <3> QED BY <2>1, <2>2, <3>1 DEF Stable, SocketInv, database, history
  <2>4. ended' = ended /\ unlisted' = unlisted
    BY <2>1 DEF history
  <2> QED BY <1>0, <2>1, <2>3, <2>4, SocketsSame, SpawnRests
<1>3. CASE \/ Issue(r) \/ GrantAccess(r) \/ Drop(r) \/ LookAtUser(r) \/ Retire(r) \/ Renew(r)
           \/ UpdatePassword(r) \/ DisableWrite(r) \/ InvalidateVersion(r) \/ GivesUp(r)
  <2>1. UNCHANGED <<started, spawned, history>> /\ (NewVersion \/ UNCHANGED socket)
    BY <1>3 DEF Issue, GrantAccess, Drop, LookAtUser, Retire, Renew, UpdatePassword,
       DisableWrite, InvalidateVersion, GivesUp, history
  <2>2. allowed' \in BOOLEAN
    BY <1>3 DEF Issue, GrantAccess, Drop, LookAtUser, Retire, Renew, UpdatePassword,
       DisableWrite, InvalidateVersion, GivesUp, database, SocketInv
  <2>3. access' \subseteq 1 .. MaxTokens
    <3>1. CASE GrantAccess(r)
      <4>1. request[r].at = "access" /\ access' = access \union {request[r].family}
        BY <3>1 DEF GrantAccess
      <4>2. request[r].family \in 1 .. MaxTokens
        BY <4>1, SessionAssumption DEF NumberInv, Numbered, Target
      <4> QED BY <4>1, <4>2 DEF SocketInv
    <3>2. CASE access' = access \/ access' = {}
      BY <3>2 DEF SocketInv
    <3> QED BY <1>3, <3>1, <3>2 DEF Issue, Drop, LookAtUser, Retire, Renew, UpdatePassword,
            DisableWrite, InvalidateVersion, GivesUp, database, NewVersion
  <2>4. ~InvalidateReused(r)
    BY <1>3 DEF InvalidateReused, Issue, GrantAccess, Drop, LookAtUser, Retire, Renew,
       UpdatePassword, DisableWrite, InvalidateVersion, GivesUp, At
  <2>5. ended' = ended /\ unlisted' = unlisted /\ unlisted' \subseteq ended' /\ Stable
    BY <2>1, <2>2, <2>3 DEF history, Stable, SocketInv
  <2> QED BY <1>0, <2>1, <2>4, <2>5, SocketsSame, SpawnRests
<1>4. CASE RevokeReused(r)
  <2>1. /\ UNCHANGED <<allowed, access, started, spawned, socket, unlisted, unrevoked>>
        /\ ended \subseteq ended' /\ ~InvalidateReused(r)
    BY <1>4 DEF RevokeReused, InvalidateReused, At
  <2>2. request'[r].at = "reused"
    <3>1. request[r] \in RequestSet /\ request \in [Request -> RequestSet]
      BY DEF Inv, Typed
    <3> DEFINE q == [request[r] EXCEPT !.at = "reused"]
    <3>2. request'[r] = q
      BY <1>4, <3>1 DEF RevokeReused, Goes, Overtaken
    <3> QED BY <3>1, <3>2 DEF RequestSet
  <2>3. Stable /\ unlisted' \subseteq ended'
    BY <2>1 DEF Stable, SocketInv
  <2> QED BY <2>1, <2>2, <2>3, SocketsSame, SpawnRests
<1>5. CASE InvalidateReused(r)
  <2>1. /\ UNCHANGED <<allowed, started, history>> /\ Spawn({Everyone})
        /\ NewVersion \/ UNCHANGED socket
        /\ access' = access \/ access' = {}
    BY <1>5 DEF InvalidateReused, NewVersion
  <2>2. Stable /\ unlisted' \subseteq ended' /\ unlisted' = unlisted
    BY <2>1 DEF Stable, SocketInv, history
  <2> QED BY <2>1, <2>2, SocketsSame, SpawnRests
<1>6. CASE LogoutRevoke(r)
  <2> DEFINE f == tokens[request[r].token].family
  <2>1. /\ UNCHANGED <<allowed, access, started, socket, unlisted, unrevoked>>
        /\ ended' = ended \union {f} /\ ~InvalidateReused(r)
        /\ Spawn({request[r].family})
        /\ request[r].op = "logout" /\ request[r].at = "family"
    BY <1>6 DEF LogoutRevoke, InvalidateReused, At
  <2>2. request[r].family \in {Everyone, f}
    BY <2>1 DEF NumberInv, Numbered
  <2>3. Stable /\ unlisted' \subseteq ended'
    BY <2>1 DEF Stable, SocketInv
  <2> HIDE DEF f
  <2> QED BY <1>0, <2>1, <2>2, <2>3, SocketsSame, SpawnRests
<1>7. CASE RevokeOthers(r)
  <2> DEFINE fs == {f \in Families \ {request[r].family} : Active(f)}
  <2>1. /\ UNCHANGED <<allowed, access, started, socket, unrevoked>>
        /\ ended' = ended \union fs /\ unlisted' = unlisted \union (fs \ request[r].listed)
        /\ Spawn(request[r].listed) /\ ~InvalidateReused(r)
    BY <1>7 DEF RevokeOthers, InvalidateReused, At
  <2> HIDE DEF fs
  <2>2. Stable /\ unlisted \subseteq unlisted' /\ unlisted' \subseteq ended'
    BY <2>1 DEF Stable, SocketInv
  <2> QED BY <1>0, <2>1, <2>2, SocketsSame, SpawnRests
<1>8. CASE RevokeAll(r)
  <2>1. /\ UNCHANGED <<allowed, access, started, socket, unlisted>> /\ Spawn({Everyone})
        /\ ended \subseteq ended' /\ unrevoked' \in BOOLEAN /\ ~InvalidateReused(r)
    BY <1>8 DEF RevokeAll, InvalidateReused, At, SocketInv
  <2>2. Stable /\ unlisted' \subseteq ended'
    BY <2>1 DEF Stable, SocketInv
  <2> QED BY <2>1, <2>2, SocketsSame, SpawnRests
<1> QED BY <1>2, <1>3, <1>4, <1>5, <1>6, <1>7, <1>8 DEF RequestStep, Begins

\* Nobody but the requests and the disconnects has a hand in what is still to come.
LEMMA SocketCuts ==
  ASSUME SocketInv, NEW s \in Socket,
         Handshake(s) \/ Register(s) \/ Leave(s) \/ Recheck(s)
  PROVE  SocketInv'
<1>0. UNCHANGED <<database, request, started, history>>
  BY DEF Handshake, Register, Leave, Recheck
<1>1. CASE Recheck(s)
  <2>1. Spawn({Everyone}) /\ UNCHANGED socket
    BY <1>1 DEF Recheck
  <2>2. Stable /\ UNCHANGED <<ended, unlisted>> /\ unlisted' \subseteq ended'
    BY <1>0 DEF Stable, SocketInv, database, history
  <2> QED BY <1>0, <2>1, <2>2, SocketsSame, SpawnRests
<1>2. CASE Handshake(s)
  <2>1. PICK a \in access :
          socket' = [socket EXCEPT ![s] = [at |-> "shaken", family |-> a, current |-> TRUE,
                                           excused |-> a \in ended]]
    BY <1>2 DEF Handshake
  <2> DEFINE new == [at |-> "shaken", family |-> a, current |-> TRUE, excused |-> a \in ended]
  <2>2. new \in SocketSet
    BY SessionAssumption DEF SocketInv, SocketSet, Target
  <2>3. new.family = a /\ new.excused = (a \in ended)
    OBVIOUS
  <2> HIDE DEF new
  <2>4. socket' \in [Socket -> SocketSet] /\ socket'[s] = new
        /\ \A x \in Socket : x # s => socket'[x] = socket[x]
    BY <2>1, <2>2 DEF SocketInv, new
  <2>5. UNCHANGED spawned
    BY <1>2 DEF Handshake
  <2>6. ASSUME NEW x \in Socket PROVE Cut(x)'
    BY <1>0, <2>3, <2>4, <2>5, <2>6 DEF SocketInv, Cut, CutAhead, history
  <2> QED BY <1>0, <2>4, <2>5, <2>6 DEF SocketInv, database, history
<1>3. CASE Register(s) \/ Leave(s)
  <2>1. \E at \in {"open", "over"} : socket' = [socket EXCEPT ![s].at = at]
    BY <1>3 DEF Register, Leave
  <2>2. socket[s].at \in {"shaken", "open"} /\ UNCHANGED spawned
    BY <1>3 DEF Register, Leave
  <2>3. /\ socket' \in [Socket -> SocketSet]
        /\ \A x \in Socket : x # s => socket'[x] = socket[x]
        /\ socket'[s].family = socket[s].family /\ socket'[s].excused = socket[s].excused
    BY <2>1 DEF SocketInv, SocketSet
  <2>4. ASSUME NEW x \in Socket PROVE Cut(x)'
    <3>1. CASE x = s
      BY <1>0, <2>2, <2>3, <3>1 DEF SocketInv, Cut, CutAhead, history
    <3>2. CASE x # s
      BY <1>0, <2>2, <2>3, <3>2 DEF SocketInv, Cut, CutAhead, history
    <3> QED BY <3>1, <3>2
  <2> QED BY <1>0, <2>2, <2>3, <2>4 DEF SocketInv, database, history
<1> QED BY <1>1, <1>2, <1>3

LEMMA DisconnectCuts ==
  ASSUME SocketInv, NEW x \in Target, Disconnect(x)
  PROVE  SocketInv'
<1>1. UNCHANGED <<database, request, started, history>> /\ spawned[x] > 0
  BY DEF Disconnect
<1>2. /\ spawned' \in [Target -> Nat]
      /\ \A y \in Target : y # x => spawned'[y] = spawned[y]
  BY DEF Disconnect, SocketInv
<1> DEFINE new(s) == CASE Meant(s, x) /\ Open(s) -> [socket[s] EXCEPT !.at = "over"]
                       [] Meant(s, x) /\ socket[s].at = "shaken" -> [socket[s] EXCEPT !.excused = TRUE]
                       [] OTHER -> socket[s]
<1>3. socket' = [s \in Socket |-> new(s)]
  BY DEF Disconnect
<1>4. ASSUME NEW s \in Socket
      PROVE  /\ new(s) \in SocketSet /\ new(s).family = socket[s].family
             /\ socket[s].excused => new(s).excused
             /\ new(s).at \in {"shaken", "open"} => socket[s].at = new(s).at
             /\ Meant(s, x) /\ new(s).at \in {"shaken", "open"} => new(s).excused
  <2>0. socket[s] \in SocketSet
    BY DEF SocketInv
  <2>1. CASE Meant(s, x) /\ Open(s)
    <3>1. new(s) = [socket[s] EXCEPT !.at = "over"]
      BY <2>1 DEF Open
    <3> QED BY <2>0, <3>1 DEF SocketSet
  <2>2. CASE Meant(s, x) /\ socket[s].at = "shaken"
    <3>1. new(s) = [socket[s] EXCEPT !.excused = TRUE]
      BY <2>2 DEF Open
    <3> QED BY <2>0, <3>1 DEF SocketSet
  <2>3. CASE ~(Meant(s, x) /\ Open(s)) /\ ~(Meant(s, x) /\ socket[s].at = "shaken")
    <3>1. new(s) = socket[s]
      BY <2>3
    <3> QED BY <2>0, <2>3, <3>1 DEF Open
  <2> QED BY <2>1, <2>2, <2>3
<1> HIDE DEF new
<1>5. socket' \in [Socket -> SocketSet]
  BY <1>3, <1>4
<1>6. ASSUME NEW s \in Socket PROVE Cut(s)'
  <2>1. socket'[s] = new(s) /\ socket[s].family \in Target /\ Everyone \in Target
    BY <1>3, SessionAssumption DEF SocketInv, SocketSet, Everyone, Target
  <2>2. CASE Meant(s, x)
    BY <1>4, <2>1, <2>2 DEF Cut
  <2>3. CASE ~Meant(s, x)
    <3>1. spawned'[Everyone] = spawned[Everyone] /\ spawned'[socket[s].family] = spawned[socket[s].family]
      BY <1>2, <2>1, <2>3 DEF Meant
    <3>2. CutAhead(s) => CutAhead(s)'
      BY <1>1, <1>4, <2>1, <3>1 DEF CutAhead
    <3>3. UNCHANGED <<ended, unlisted>>
      BY <1>1 DEF history
    <3> QED BY <1>4, <2>1, <3>2, <3>3, CutStays
  <2> QED BY <2>2, <2>3
<1> QED BY <1>1, <1>2, <1>5, <1>6 DEF SocketInv, database, history

LEMMA NextCut ==
  ASSUME Inv, NumberInv, SocketInv, [Next]_vars
  PROVE  SocketInv'
<1>1. ASSUME UNCHANGED <<socket, unlisted, ended, allowed, access, unrevoked, request>>,
             NEW STATE xs, Spawn(xs) \/ (UNCHANGED spawned /\ xs = {}), started' \in Nat
      PROVE  SocketInv'
  <2>1. Stable /\ unlisted' \subseteq ended'
    BY <1>1 DEF Stable, SocketInv
  <2> QED BY <1>1, <2>1, SocketsSame, SpawnRests
<1>2. CASE LogoutByAccess
  BY <1>1, <1>2 DEF LogoutByAccess, database, history, SocketInv
<1>3. CASE UNCHANGED vars
  BY <1>1, <1>3 DEF vars, SocketInv
<1>4. CASE Block
  <2>1. Stable /\ unlisted' \subseteq ended'
    BY <1>4 DEF Block, Stable, SocketInv, history
  <2> QED BY <1>4, <2>1, SocketsSame, SpawnRests DEF Block, history
<1>5. CASE RevokeSession
  <2>1. PICK f \in Families :
          /\ started' = started + 1 /\ ended' = ended \union {f} /\ Spawn({f})
          /\ request' = [q \in Request |-> [request[q] EXCEPT !.late = @ \/ Holds(q, {f})]]
          /\ UNCHANGED <<allowed, access, socket, unlisted, unrevoked>>
    BY <1>5 DEF RevokeSession
  <2>2. \A q \in Request : request'[q].at = request[q].at
    <3> DEFINE p(q) == [request[q] EXCEPT !.late = @ \/ Holds(q, {f})]
    <3>1. request' = [q \in Request |-> p(q)]
      BY <2>1
    <3>2. \A q \in Request : p(q).at = request[q].at
      BY DEF Inv, Typed, RequestSet
    <3> HIDE DEF p
    <3> QED BY <3>1, <3>2
  <2>3. Stable /\ unlisted' \subseteq ended'
    BY <2>1 DEF Stable, SocketInv
  <2> QED BY <2>1, <2>2, <2>3, SocketsSame, SpawnRests
<1> QED BY <1>2, <1>3, <1>4, <1>5, RequestCuts, SocketCuts, DisconnectCuts DEF Next

\* All there is to know about sessions.
SessionInv == Inv /\ FreshInv /\ NumberInv /\ SocketInv

LEMMA InitSession == Init => SessionInv
  BY InitInv, InitFresh, InitNumbered DEF SessionInv

LEMMA NextSession ==
  ASSUME SessionInv, [Next]_vars
  PROVE  SessionInv'
  BY NextInv, NextFresh, NextNumbered, NextCut DEF SessionInv

LEMMA SessionTypes == SessionInv => TypeOK
<1> SUFFICES ASSUME SessionInv PROVE TypeOK
  OBVIOUS
<1>0. Inv /\ NumberInv /\ SocketInv
  BY DEF SessionInv
<1>1. tokens \in Seq([family : 1 .. MaxTokens, live : BOOLEAN, current : BOOLEAN, late : BOOLEAN])
  <2> DEFINE S == [family : 1 .. MaxTokens, live : BOOLEAN, current : BOOLEAN, late : BOOLEAN]
  <2>1. \A i \in DOMAIN tokens : tokens[i].family \in 1 .. MaxTokens
    BY <1>0, TokenNumber, SessionAssumption DEF Target
  <2>2. tokens \in Seq(TokenSet)
    BY <1>0 DEF Inv, Typed
  <2>3. \A i \in 1 .. Len(tokens) : tokens[i] \in S
    <3> TAKE i \in 1 .. Len(tokens)
    <3>1. tokens[i] \in TokenSet /\ i \in DOMAIN tokens
      BY <2>2
    <3>2. tokens[i].family \in 1 .. MaxTokens
      BY <2>1, <3>1
    <3> QED BY <3>1, <3>2 DEF TokenSet
  <2> HIDE DEF S
  <2>4. Len(tokens) \in Nat /\ tokens \in [1 .. Len(tokens) -> S]
    BY <2>2, <2>3
  <2>5. tokens \in Seq(S)
    BY <2>4
  <2> QED BY <2>5 DEF S
<1>2. ASSUME NEW r \in Request
      PROVE  request[r] \in [op : Operation, at : Place, family : Target, token : Target,
                             current : BOOLEAN, listed : SUBSET (1 .. MaxTokens), late : BOOLEAN]
  BY <1>0 DEF Inv, Typed, RequestSet, NumberInv, Numbered
<1>3. request \in [Request -> [op : Operation, at : Place, family : Target, token : Target,
                             current : BOOLEAN, listed : SUBSET (1 .. MaxTokens), late : BOOLEAN]]
  BY <1>0, <1>2 DEF Inv, Typed
<1>4. ended \subseteq 1 .. MaxTokens
  BY <1>0, FamilyNumber DEF Inv, Known
<1> QED BY <1>0, <1>1, <1>3, <1>4 DEF TypeOK, SocketInv, SocketSet

\* When no disconnect is to come, who would be cut off has been.
LEMMA SocketsCut == SessionInv => SocketsEndWithSessions
<1> SUFFICES ASSUME SessionInv, NEW s \in Socket, Open(s), socket[s].family \in ended,
                    \A x \in Target : spawned[x] = 0,
                    \A r \in Request : request[r].at # "reused"
             PROVE  socket[s].excused \/ socket[s].family \in unlisted
  BY DEF SocketsEndWithSessions
<1>1. Cut(s) /\ socket[s].family \in Target /\ Everyone \in Target
  BY SessionAssumption DEF SessionInv, SocketInv, SocketSet, Everyone, Target
<1>2. ~CutAhead(s)
  BY <1>1 DEF CutAhead
<1> QED BY <1>1, <1>2 DEF Cut, Open

\* What EndedSessionsStayEnded and OldPasswordsAreOut say of a state follows from SessionInv.
LEMMA SessionHolds ==
  SessionInv => EndedStaysEnded /\ OldPasswordOpensNothing /\ SocketsEndWithSessions
<1> SUFFICES ASSUME SessionInv PROVE EndedStaysEnded /\ OldPasswordOpensNothing
  BY SocketsCut
<1>1. EndedStaysEnded
  BY DEF SessionInv, Inv, EndedIn, EndedStaysEnded
<1>2. OldPasswordOpensNothing
  BY DEF SessionInv, FreshInv, Quiet, TokensFresh, OldPasswordOpensNothing, Changing, Changes
<1> QED BY <1>1, <1>2

\* controllers/auth.rs, ws/registry.rs: the types of the session records, for any number of
\* tokens, requests and sockets.
THEOREM SessionsTyped == Spec => []TypeOK
  BY SessionTypes, InitSession, NextSession, PTL DEF Spec

\* ws/registry.rs: when no disconnect is to come, an open socket of an ended session was not
\* registered when its disconnect ran, or its session was revoked without being named.
THEOREM SocketsEnd == Spec => []SocketsEndWithSessions
  BY SocketsCut, InitSession, NextSession, PTL DEF Spec
=================================================================================
