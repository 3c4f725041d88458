--------------------------- MODULE SessionsProofs ---------------------------
(***************************************************************************)
(* Proofs about Sessions, for any number of requests in flight, of tokens  *)
(* and of sign-outs.  What a rotated session opens holds however requests  *)
(* overlap; what a sign-out everywhere closes is proved for requests that  *)
(* sign out everywhere one after the other (Overlap = FALSE), because      *)
(* token_version += 1 loses the update of one of two that overlap.         *)
(***************************************************************************)
EXTENDS Sessions, SequenceTheorems, TLAPS

TokenSet == [ver : Nat, root : Nat, pw : Nat]
Request == [kind : Kind \cup {"none"}, token : Nat, root : Nat, pw : Nat, late : BOOLEAN]

SlotTypes ==
    /\ pc \in [Tx -> {"idle", "loaded", "locked"}]
    /\ req \in [Tx -> Request]
    /\ load \in [Tx -> Nat]
    /\ found \in [Tx -> SUBSET Nat]

TypeOK ==
    /\ ver \in Nat /\ password \in Nat \ {0} /\ deleted \in BOOLEAN /\ epoch \in Nat
    /\ tokens \in Seq(TokenSet)
    /\ sessions \subseteq DOMAIN tokens /\ exchanged \subseteq DOMAIN tokens
    /\ revoked \subseteq sessions /\ expired \subseteq sessions
    /\ SlotTypes

USE DEF Kind, RevokeKind

-----------------------------------------------------------------------------
(* Type correctness *)

\* A request that ends leaves an idle slot, and the others alone.
LEMMA FinishType ==
    ASSUME TypeOK, NEW t \in Tx, Finish(t)
    PROVE  SlotTypes'
BY DEF TypeOK, SlotTypes, Finish, NoReq, Request

\* A request that starts leaves everything but its slot alone.
LEMMA StartType ==
    ASSUME TypeOK, NEW t \in Tx, NEW r \in Request, Start(t, r)
    PROVE  TypeOK'
<1>1. SlotTypes' BY DEF TypeOK, SlotTypes, Start
<1>2. UNCHANGED <<ver, password, deleted, tokens, sessions, revoked, expired, epoch, exchanged>>
    BY DEF Start, rows
<1> QED BY <1>1, <1>2 DEF TypeOK

\* A token of the table is a token; positions are numbers.
LEMMA TokenType ==
    ASSUME TypeOK, NEW n \in DOMAIN tokens
    PROVE  n \in Nat /\ tokens[n] \in TokenSet
BY DEF TypeOK

\* Issuing adds one token and one session behind all others.
LEMMA IssueType ==
    ASSUME TypeOK, NEW t \in Tx, Issue(t)
    PROVE  LET new == Len(tokens) + 1 IN
           /\ tokens' \in Seq(TokenSet)
           /\ DOMAIN tokens' = DOMAIN tokens \cup {new}
           /\ new \notin DOMAIN tokens
           /\ \A n \in DOMAIN tokens : tokens'[n] = tokens[n]
           /\ tokens'[new] = Token(load[t], req[t].root, req[t].pw)
           /\ sessions' = sessions \cup {new}
<1>1. Token(load[t], req[t].root, req[t].pw) \in TokenSet
    BY DEF TypeOK, SlotTypes, Request, Token, TokenSet
<1>2. tokens \in Seq(TokenSet) BY DEF TypeOK
<1> QED BY <1>1, <1>2 DEF Issue

\* Requests that begin are typed.
LEMMA BeginType == ASSUME TypeOK, NEW t \in Tx, Begin(t) PROVE TypeOK'
<1>1. ASSUME NEW pw \in 0..password, LoginBegin(t, pw) PROVE TypeOK'
    <2>1. [kind |-> "login", token |-> 0, root |-> epoch, pw |-> pw, late |-> FALSE] \in Request
        BY <1>1 DEF TypeOK, Request
    <2> QED BY <1>1, <2>1, StartType DEF LoginBegin
<1>2. ASSUME NEW n \in DOMAIN tokens, RefreshBegin(t, n) PROVE TypeOK'
    <2>1. [kind |-> "refresh", token |-> n, root |-> tokens[n].root, pw |-> tokens[n].pw,
           late |-> n \in exchanged] \in Request
        BY TokenType DEF TokenSet, Request
    <2> QED BY <1>2, <2>1, StartType DEF RefreshBegin
<1>3. ASSUME NEW n \in DOMAIN tokens, NEW k \in Kind,
             Start(t, [kind |-> k, token |-> n, root |-> 0, pw |-> 0, late |-> FALSE])
      PROVE  TypeOK'
    <2>1. [kind |-> k, token |-> n, root |-> 0, pw |-> 0, late |-> FALSE] \in Request
        BY TokenType DEF Request
    <2> QED BY <1>3, <2>1, StartType
<1>4. ASSUME NEW n \in DOMAIN tokens, LogoutBegin(t, n) PROVE TypeOK'
    BY <1>3, <1>4 DEF LogoutBegin
<1>5. ASSUME NEW n \in DOMAIN tokens, NEW k \in RevokeKind, RevokeBegin(t, k, n) PROVE TypeOK'
    BY <1>3, <1>5 DEF RevokeBegin
<1> QED BY <1>1, <1>2, <1>4, <1>5 DEF Begin

\* Steps of a request in flight are typed.
LEMMA StepType == ASSUME TypeOK, NEW t \in Tx, Step(t) PROVE TypeOK'
<1>1. CASE LoginCommit(t)
    <2>1. SlotTypes' BY <1>1, FinishType DEF LoginCommit
    <2> QED BY <1>1, <2>1, IssueType DEF LoginCommit, TypeOK
<1>2. CASE RefreshCommit(t)
    <2>1. SlotTypes' BY <1>2, FinishType DEF RefreshCommit
    <2> QED BY <1>2, <2>1, IssueType DEF RefreshCommit, TypeOK
<1>3. CASE LogoutCommit(t)
    <2>1. SlotTypes' BY <1>3, FinishType DEF LogoutCommit
    <2> QED BY <1>3, <2>1 DEF LogoutCommit, TypeOK
<1>4. CASE RowGone(t) \/ Abort(t)
    <2>1. SlotTypes' BY <1>4, FinishType DEF RowGone, Abort
    <2> QED BY <1>4, <2>1 DEF RowGone, Abort, TypeOK, rows
<1>5. CASE RevokeLock(t)
    <2>1. sessions \subseteq Nat BY TokenType DEF TypeOK
    <2>2. SlotTypes' BY <1>5, <2>1 DEF RevokeLock, TypeOK, SlotTypes
    <2> QED BY <1>5, <2>2 DEF RevokeLock, TypeOK, rows
<1>6. CASE RevokeCommit(t)
    <2>1. SlotTypes' BY <1>6, FinishType DEF RevokeCommit
    <2>2. ver' \in Nat /\ password' \in Nat \ {0} /\ deleted' \in BOOLEAN /\ epoch' \in Nat
        BY <1>6 DEF RevokeCommit, TypeOK, SlotTypes
    <2>3. /\ sessions' \subseteq sessions /\ revoked' \subseteq sessions'
          /\ expired' \subseteq sessions' /\ UNCHANGED <<tokens, exchanged>>
        BY <1>6 DEF RevokeCommit, TypeOK
    <2> QED BY <2>1, <2>2, <2>3 DEF TypeOK
<1> QED BY <1>1, <1>2, <1>3, <1>4, <1>5, <1>6 DEF Step

\* TypeOK is inductive.
LEMMA TypeStep == TypeOK /\ [Next]_vars => TypeOK'
<1> SUFFICES ASSUME TypeOK, [Next]_vars PROVE TypeOK' OBVIOUS
<1>1. CASE (\E n \in sessions : Expire(n)) \/ Cleanup
    BY <1>1 DEF Expire, Cleanup, TypeOK, SlotTypes, slots
<1>2. CASE UNCHANGED vars BY <1>2 DEF vars, rows, slots, TypeOK, SlotTypes
<1> QED BY <1>1, <1>2, BeginType, StepType DEF Next

\* An account with a password and no sign-in has the types.
LEMMA TypeInit == Init => TypeOK
<1> SUFFICES ASSUME Init PROVE TypeOK OBVIOUS
<1>1. tokens \in Seq(TokenSet) /\ sessions = {} /\ revoked = {} /\ expired = {} /\ exchanged = {}
    BY EmptySeq DEF Init
<1>2. SlotTypes BY DEF Init, SlotTypes, Request, NoReq
<1>3. ver \in Nat /\ password \in Nat \ {0} /\ epoch \in Nat
    BY DEF Init
<1>4. deleted \in BOOLEAN
    BY Zenon DEF Init
<1> QED BY <1>1, <1>2, <1>3, <1>4 DEF TypeOK

\* Every variable keeps its type: session rows belong to tokens that were
\* issued, and a revoked or expired row exists.
THEOREM TypeCorrect == Spec => []TypeOK
BY TypeInit, TypeStep, PTL DEF Spec

-----------------------------------------------------------------------------
(* A rotated session opens nothing, however requests overlap *)

\* A session a refresh has used is revoked as long as its row exists, and no
\* later refresh got past the checks with it.
RotationInv ==
    /\ exchanged \cap sessions \subseteq revoked
    /\ RotatedIsRefused

\* Requests that end or go on keep their lateness.
LEMMA LateStep ==
    ASSUME TypeOK, RotationInv, [Next]_vars, NEW s \in Tx
    PROVE  ~req'[s].late
<1>1. ~req[s].late /\ ~NoReq.late BY DEF RotationInv, RotatedIsRefused, NoReq
<1>2. ASSUME NEW t \in Tx, NEW r, Start(t, r), ~r.late PROVE ~req'[s].late
    BY <1>1, <1>2 DEF Start, TypeOK, SlotTypes
<1>3. ASSUME NEW t \in Tx, Begin(t) PROVE ~req'[s].late
    <2>1. ASSUME NEW n \in DOMAIN tokens, RefreshBegin(t, n) PROVE ~req'[s].late
        <3>1. n \notin exchanged BY <2>1 DEF RefreshBegin, RotationInv
        <3> DEFINE r == [kind |-> "refresh", token |-> n, root |-> tokens[n].root,
                         pw |-> tokens[n].pw, late |-> n \in exchanged]
        <3>2. Start(t, r) /\ ~r.late BY <2>1, <3>1 DEF RefreshBegin
        <3> HIDE DEF r
        <3> QED BY <1>2, <3>2
    <2>2. ASSUME NEW pw, LoginBegin(t, pw) PROVE ~req'[s].late
        BY <1>2, <2>2 DEF LoginBegin
    <2>3. ASSUME NEW n, LogoutBegin(t, n) PROVE ~req'[s].late
        BY <1>2, <2>3 DEF LogoutBegin
    <2>4. ASSUME NEW n, NEW k, RevokeBegin(t, k, n) PROVE ~req'[s].late
        BY <1>2, <2>4 DEF RevokeBegin
    <2> QED BY <1>3, <2>1, <2>2, <2>3, <2>4 DEF Begin
<1>4. ASSUME NEW t \in Tx, Step(t) PROVE ~req'[s].late
    <2>1. req' = req \/ Finish(t)
        BY <1>4 DEF Step, LoginCommit, RefreshCommit, LogoutCommit, RowGone, RevokeLock,
                    RevokeCommit, Abort
    <2> QED BY <1>1, <2>1 DEF Finish, TypeOK, SlotTypes
<1>5. CASE (\E n \in sessions : Expire(n)) \/ Cleanup \/ UNCHANGED vars
    BY <1>1, <1>5 DEF Expire, Cleanup, slots, vars
<1> QED BY <1>3, <1>4, <1>5 DEF Next

\* RotationInv is inductive relative to TypeOK: a new row has a new id, and the
\* rows that go are the revoked ones.
LEMMA RotationStep == TypeOK /\ RotationInv /\ [Next]_vars => RotationInv'
<1> SUFFICES ASSUME TypeOK, RotationInv, [Next]_vars PROVE RotationInv' OBVIOUS
<1>1. RotatedIsRefused' BY LateStep DEF RotatedIsRefused
<1>2. exchanged' \cap sessions' \subseteq revoked'
    <2> USE DEF RotationInv
    <2>1. ASSUME NEW t \in Tx, LoginCommit(t) \/ RefreshCommit(t)
          PROVE exchanged' \cap sessions' \subseteq revoked'
        <3>1. Issue(t) /\ (Len(tokens) + 1) \notin exchanged
            BY <2>1, IssueType DEF LoginCommit, RefreshCommit, TypeOK
        <3>2. CASE LoginCommit(t) BY <3>1, <3>2, IssueType DEF LoginCommit
        <3>3. CASE RefreshCommit(t)
            <4>1. req[t].token # Len(tokens) + 1
                BY <3>1, <3>3, IssueType DEF RefreshCommit, TypeOK
            <4> QED BY <3>1, <3>3, <4>1, IssueType DEF RefreshCommit
        <3> QED BY <2>1, <3>2, <3>3
    <2>2. ASSUME NEW t \in Tx, LogoutCommit(t) \/ RevokeCommit(t)
          PROVE exchanged' \cap sessions' \subseteq revoked'
        BY <2>2 DEF LogoutCommit, RevokeCommit
    <2>3. ASSUME NEW t \in Tx, RowGone(t) \/ RevokeLock(t) \/ Abort(t)
          PROVE UNCHANGED <<exchanged, sessions, revoked>>
        BY <2>3 DEF RowGone, RevokeLock, Abort, rows
    <2>4. ASSUME NEW t \in Tx, Begin(t) PROVE UNCHANGED <<exchanged, sessions, revoked>>
        BY <2>4 DEF Begin, LoginBegin, RefreshBegin, LogoutBegin, RevokeBegin, Start, rows
    <2>5. CASE Cleanup BY <2>5 DEF Cleanup
    <2>6. CASE (\E n \in sessions : Expire(n)) \/ UNCHANGED vars
        BY <2>6 DEF Expire, vars, rows
    <2> QED BY <2>1, <2>2, <2>3, <2>4, <2>5, <2>6 DEF Next, Step
<1> QED BY <1>1, <1>2 DEF RotationInv

\* At the start nothing has been rotated.
LEMMA RotationInit == Init => RotationInv
BY DEF Init, RotationInv, RotatedIsRefused, NoReq

\* Once a refresh has used a session, nothing begins with it any more, whatever
\* sign-ins, sign-outs and cleanups run meanwhile.
THEOREM RotatedRefused == Spec => []RotatedIsRefused
<1>1. RotationInv => RotatedIsRefused BY DEF RotationInv
<1> QED BY <1>1, TypeInit, TypeStep, RotationInit, RotationStep, PTL DEF Spec

-----------------------------------------------------------------------------
(* A sign-out everywhere closes what was open *)

\* Whatever was opened in the present epoch was opened with no password or with
\* the present one.
Fresh(root, pw) == root \in 0..epoch /\ (root = epoch => pw \in {0, password})

Opening(t) == req[t].kind \in {"login", "refresh"}

\* With sign-outs everywhere one at a time, token_version counts them: a token,
\* and a request about to issue one, carries the epoch its sign-in was made in.
SerialInv ==
    /\ ver = epoch
    /\ \A n \in DOMAIN tokens : /\ tokens[n].ver = tokens[n].root
                                /\ Fresh(tokens[n].root, tokens[n].pw)
    /\ \A t \in Tx : Opening(t) => load[t] = req[t].root /\ Fresh(req[t].root, req[t].pw)
    /\ \A t \in Tx : Revoking(t) => load[t] = ver
    /\ \A s, t \in Tx : Revoking(s) /\ Revoking(t) => s = t
    /\ \A t \in Tx : pc[t] = "locked" => Revoking(t)

\* A request that begins loads the present version; one that issues tokens has
\* its credentials checked in the present epoch.
LEMMA SerialBegin ==
    ASSUME TypeOK, SerialInv, ~Overlap, NEW t \in Tx, Begin(t)
    PROVE  SerialInv'
<1>1. UNCHANGED <<ver, password, epoch, tokens>>
    BY DEF Begin, LoginBegin, RefreshBegin, LogoutBegin, RevokeBegin, Start
<1> DEFINE Sound(r) == /\ r.kind \in {"login", "refresh"} => r.root = ver /\ Fresh(r.root, r.pw)
                       /\ r.kind \in RevokeKind => \A s \in Tx : ~Revoking(s)
<1>2. PICK r : Start(t, r) /\ Sound(r)
    <2>1. ASSUME NEW pw \in 0..password, LoginBegin(t, pw) PROVE \E r : Start(t, r) /\ Sound(r)
        BY <2>1 DEF LoginBegin, Fresh, SerialInv, TypeOK
    <2>2. ASSUME NEW n \in DOMAIN tokens, RefreshBegin(t, n) PROVE \E r : Start(t, r) /\ Sound(r)
        BY <2>2 DEF RefreshBegin, Accepted, Fresh, SerialInv, TypeOK
    <2>3. ASSUME NEW n \in DOMAIN tokens, LogoutBegin(t, n) PROVE \E r : Start(t, r) /\ Sound(r)
        BY <2>3 DEF LogoutBegin
    <2>4. ASSUME NEW n \in DOMAIN tokens, NEW k \in RevokeKind, RevokeBegin(t, k, n)
          PROVE \E r : Start(t, r) /\ Sound(r)
        BY <2>4 DEF RevokeBegin
    <2> QED BY <2>1, <2>2, <2>3, <2>4 DEF Begin
<1>3. /\ req'[t] = r /\ load'[t] = ver /\ pc'[t] = "loaded"
      /\ \A s \in Tx \ {t} : UNCHANGED <<req[s], load[s], pc[s]>>
    BY <1>2 DEF Start, TypeOK, SlotTypes
<1> QED BY <1>1, <1>2, <1>3 DEF SerialInv, Fresh, Opening, Revoking

\* A request that ends drops out of the invariant.
LEMMA SerialFinish ==
    ASSUME TypeOK, SerialInv, NEW t \in Tx, Finish(t)
    PROVE  \A s \in Tx : \/ s = t /\ ~Opening(s)' /\ ~Revoking(s)' /\ pc'[s] = "idle"
                         \/ s # t /\ UNCHANGED <<req[s], load[s], pc[s]>>
BY DEF Finish, NoReq, Opening, Revoking, TypeOK, SlotTypes

\* Steps of requests in flight keep SerialInv.
LEMMA SerialRequest ==
    ASSUME TypeOK, SerialInv, NEW t \in Tx, Step(t)
    PROVE  SerialInv'
<1>1. CASE LoginCommit(t) \/ RefreshCommit(t)
    <2>1. /\ Issue(t) /\ Finish(t) /\ UNCHANGED <<ver, password, epoch>>
          /\ Opening(t)
        BY <1>1 DEF LoginCommit, RefreshCommit, Opening
    <2> DEFINE new == Len(tokens) + 1
    <2>2. /\ DOMAIN tokens' = DOMAIN tokens \cup {new}
          /\ \A n \in DOMAIN tokens : tokens'[n] = tokens[n]
          /\ tokens'[new] = Token(load[t], req[t].root, req[t].pw)
        BY <2>1, IssueType
    <2> HIDE DEF new
    <2>3. /\ tokens'[new].ver = tokens'[new].root
          /\ Fresh(tokens'[new].root, tokens'[new].pw)
        BY <2>1, <2>2 DEF Token, SerialInv
    <2> QED BY <2>1, <2>2, <2>3, SerialFinish DEF SerialInv, Fresh, Opening, Revoking
<1>2. CASE LogoutCommit(t) \/ RowGone(t) \/ Abort(t)
    <2>1. Finish(t) /\ UNCHANGED <<ver, password, epoch, tokens>>
        BY <1>2 DEF LogoutCommit, RowGone, Abort
    <2> QED BY <2>1, SerialFinish DEF SerialInv, Fresh, Opening, Revoking
<1>3. CASE RevokeLock(t)
    <2>1. UNCHANGED <<ver, password, epoch, tokens, req, load>> BY <1>3 DEF RevokeLock
    <2>2. \A s \in Tx : pc'[s] = "locked" => Revoking(s)
        BY <1>3 DEF RevokeLock, SerialInv, TypeOK, SlotTypes
    <2> QED BY <2>1, <2>2 DEF SerialInv, Fresh, Opening, Revoking
<1>4. CASE RevokeCommit(t)
    <2>1. /\ Finish(t) /\ tokens' = tokens /\ epoch' = epoch + 1 /\ ver' = load[t] + 1
          /\ Revoking(t)
        BY <1>4 DEF RevokeCommit, SerialInv
    <2>2. ver' = epoch' BY <2>1 DEF SerialInv
    <2>3. ASSUME NEW root, NEW pw, Fresh(root, pw) PROVE Fresh(root, pw)'
        BY <2>1, <2>3 DEF Fresh, TypeOK
    <2>4. \A s \in Tx : ~Revoking(s)'
        BY <2>1, SerialFinish DEF SerialInv, Revoking
    <2> QED BY <2>1, <2>2, <2>3, <2>4, SerialFinish DEF SerialInv, Opening
<1> QED BY <1>1, <1>2, <1>3, <1>4 DEF Step

\* SerialInv is inductive relative to TypeOK.
LEMMA SerialStep ==
    ASSUME ~Overlap
    PROVE  TypeOK /\ SerialInv /\ [Next]_vars => SerialInv'
<1> SUFFICES ASSUME TypeOK, SerialInv, [Next]_vars PROVE SerialInv' OBVIOUS
<1>1. CASE (\E n \in sessions : Expire(n)) \/ Cleanup \/ UNCHANGED vars
    <2>1. UNCHANGED <<ver, password, epoch, tokens, req, load, pc>>
        BY <1>1 DEF Expire, Cleanup, slots, vars
    <2> QED BY <2>1 DEF SerialInv, Fresh, Opening, Revoking
<1> QED BY <1>1, SerialBegin, SerialRequest DEF Next

\* At the start nobody is signing in or out.
LEMMA SerialInit == Init => SerialInv
BY DEF Init, SerialInv, Opening, Revoking, NoReq

\* As long as sign-outs everywhere do not overlap, a token is accepted only if
\* its credentials were checked after the last of them: sign-ins and refreshes
\* that overlap one, in any number, issue tokens that are refused.
THEOREM AcceptedIsCurrent ==
    ASSUME ~Overlap
    PROVE  Spec => []AcceptedSignInIsCurrent
<1>1. SerialInv => AcceptedSignInIsCurrent
    BY DEF SerialInv, AcceptedSignInIsCurrent, Accepted
<1> QED BY <1>1, TypeInit, TypeStep, SerialInit, SerialStep, PTL DEF Spec

\* Under the same assumption no accepted token goes back to a changed password.
THEOREM OldPasswordRefused ==
    ASSUME ~Overlap
    PROVE  Spec => []OldPasswordOpensNothing
<1>1. SerialInv => OldPasswordOpensNothing
    BY DEF SerialInv, OldPasswordOpensNothing, Accepted, Fresh
<1> QED BY <1>1, TypeInit, TypeStep, SerialInit, SerialStep, PTL DEF Spec
=============================================================================
