----------------------------- MODULE MCActionInput -----------------------------
(***************************************************************************)
(* ActionInput with the bindings and the tracking packets TLC takes.       *)
(***************************************************************************)
EXTENDS ActionInput

Bind(hand, component) == [hand |-> hand, component |-> component]

\* Controllers: a stick and the other hand's buttons, out of order and with a source no
\* hand has.  Hands: both pinches.
MCSuggestions ==
    [profile \in Profiles |->
        IF profile = "hand"
        THEN {<<Bind("right", "pinch"), Bind("left", "pinch")>>}
        ELSE {<<Bind("right", "stick"), Bind("gamepad", "stick"), Bind("left", "menu"),
                Bind("left", "stick")>>}]

Sticks(l, r) == [h \in Hands |-> IF h = "left" THEN l ELSE r]

\* Controllers with the sticks aside, to opposite sides, and the menu button held; and one
\* hand tracked, the other's stick back and less aside.
MCPackets ==
    {[tracked |-> {}, stick |-> Sticks(<<-2, 1>>, <<2, 1>>), menu |-> 1, pinch |-> Sticks(0, 0)],
     [tracked |-> {"left"}, stick |-> Sticks(<<0, 0>>, <<1, -2>>), menu |-> 0,
      pinch |-> Sticks(2, 0)]}

\* The value automation gives the right stick is one step from what it reads above.
MCAutomated == {<<"right", "stick">>}
MCOverrides == {<<2, 2>>}
=============================================================================
