-------------------------- MODULE MCEngineRuntime --------------------------
(***************************************************************************)
(* Two conversations and three sessions of one backend, the third one only *)
(* ever a replacement.  A behaviour is offered a few operations out of all *)
(* kinds, so that the handlers meet in every combination of that size.     *)
(***************************************************************************)
EXTENDS EngineRuntime, TLC, FiniteSetsExt

CONSTANTS
    c1, c2, s1, s2, s3, agent,
    Kinds,      \* kinds of work offered in every combination of two
    Cores       \* sets of kinds offered in every combination of three

MCSessions == <<s1, s2, s3>>
MCConversations == {c1, c2}
MCBackends == {agent}
MCBackendOf == [s \in Sessions |-> agent]
MCBound == (c1 :> s1) @@ (c2 :> s2)
\* One session that a recovery rebuilds and one that it leaves alone.
MCFewSessions == <<s1, s2>>
MCBoundOne == (c1 :> s1) @@ (c2 :> None)

MCOffers ==
    {Item("text", c2, None, None), Item("attach", c1, s2, None),
     Item("attach", c2, s3, None), Item("detach", c1, None, None),
     Item("replace", c1, None, s3), Item("launch", c2, None, s3),
     Item("press", c2, s1, None), Item("answer", c1, s1, None),
     Item("started", None, s1, None), Item("completed", None, s1, None),
     Item("requested", None, s1, None), Item("exited", None, s2, None),
     Item("resumed", None, s2, None), Item("replaced", None, s1, s3),
     Item("disconnected", None, None, None),
     Item("delivery", c1, s1, None), Item("reattach", c2, s1, None),
     Item("working", None, s1, None), Item("board", None, None, None),
     Item("switch", c1, None, s3)}
MCOffered == {w \in MCOffers : w.kind \in Kinds}
MCWork == MCOffered \cup Recoveries
MCScripts ==
    kSubset(2, MCOffered)
    \cup UNION {kSubset(3, {w \in MCOffered : w.kind \in core}) : core \in Cores}
============================================================================
