----------------------------- MODULE Messaging -----------------------------
(***************************************************************************)
(* What stands around the reference pipeline: the SMS gateway, which lets  *)
(* a message in, a conversation whose earlier turns weigh on its later     *)
(* ones, the automaton that finds the cues of a text, and the explanation  *)
(* that may be asked for afterwards.                                       *)
(***************************************************************************)
EXTENDS SmsGateway, SessionMemory, CueMatcher, Explanation

vars == <<gatewayVars, sessionVars, raw, matcherVars, explainVars>>

Init == GatewayInit /\ SessionInit /\ MatcherInit /\ ExplainInit

GatewayUsed  == \E s \in Sender : received[s] > 0
SessionUsed  == turnCount > 0
Transcribing == raw # <<>>
MatcherUsed  == cues # <<>>
Explaining   == keyed \/ weights # {} \/ changes > 0 \/ \E r \in Excerpt : request[r] # "none"

\* They share no state and are explored one at a time.
Next ==
    \/ /\ ~(SessionUsed \/ Transcribing \/ MatcherUsed \/ Explaining)
       /\ GatewayNext
       /\ UNCHANGED <<sessionVars, raw, matcherVars, explainVars>>
    \/ /\ ~(GatewayUsed \/ Transcribing \/ MatcherUsed \/ Explaining)
       /\ \E x \in Turn : AddTurn(x)
       /\ UNCHANGED <<gatewayVars, raw, matcherVars, explainVars>>
    \/ /\ ~(GatewayUsed \/ SessionUsed \/ MatcherUsed \/ Explaining)
       /\ Arrive
       /\ UNCHANGED <<gatewayVars, sessionVars, matcherVars, explainVars>>
    \/ /\ ~(GatewayUsed \/ SessionUsed \/ Transcribing \/ Explaining)
       /\ MatcherNext
       /\ UNCHANGED <<gatewayVars, sessionVars, raw, explainVars>>
    \/ /\ ~(GatewayUsed \/ SessionUsed \/ Transcribing \/ MatcherUsed)
       /\ ExplainNext
       /\ UNCHANGED <<gatewayVars, sessionVars, raw, matcherVars>>

Spec == Init /\ [][Next]_vars

=============================================================================
