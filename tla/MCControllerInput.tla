--------------------------- MODULE MCControllerInput ---------------------------
EXTENDS ControllerInput

CONSTANTS a, t, s, v1, v2

RoleOf == [c \in Controls |-> IF c = a THEN "accept" ELSE IF c = t THEN "toggle" ELSE "stick"]
ModeOf == [v \in Views |-> IF v = v1 THEN "cursor" ELSE "navigation"]
StartsOf == {[focus |-> NoView, opener |-> v2], [focus |-> v1, opener |-> NoView]}
CallsOf == [ui |-> {"page", "destroy", "release"},
            worker |-> {"configure", "register", "unregister", "claim", "window", "shutdown"}]
\* For PointerReleased.
PointerStarts == {[focus |-> NoView, opener |-> NoView]}
PointerMixes == {<<1, 2>>}
MixesOf == {<<2, 0>>, <<1, 2>>, <<0, 3>>}
===============================================================================
