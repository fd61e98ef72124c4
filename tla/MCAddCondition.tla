--------------------------- MODULE MCAddCondition ---------------------------
(* Three requests: a plain condition, one with a proxy, and one whose id is *)
(* taken; the last two name the same overlay file.                          *)
EXTENDS AddCondition, TLC

CONSTANTS plain, proxied, again, i1, i2, i3, i4, i5, skill, t1, t2

MCCondition(id, tools, injections, repository) ==
    [id |-> id, label |-> id, repeat |-> 1, tools |-> tools, probes |-> tools,
     injections |-> injections, repository |-> repository,
     wellFormed |-> TRUE]

MCInjection(type) ==
    [type |-> type, wellFormed |-> TRUE, relative |-> TRUE, reserved |-> FALSE,
     binary |-> "tool"]

MCGiven == <<MCCondition("base", {}, <<>>, FALSE)>>

MCAsked ==
    plain :> MCCondition("brief", {}, <<MCInjection("prompt_overlay")>>, FALSE)
    @@ proxied :> MCCondition("proxied", {"tool"}, <<MCInjection("proxy")>>, TRUE)
    @@ again :> MCCondition("base", {}, <<MCInjection("prompt_overlay")>>, FALSE)

MCOverlay ==
    plain :> [path |-> skill, text |-> t1]
    @@ proxied :> None
    @@ again :> [path |-> skill, text |-> t2]
=============================================================================
