----------------------------- MODULE MCPanelForms -----------------------------
(* PanelForms for every layout, and for settings at the ends of their ranges. *)
EXTENDS PanelForms, TLC
CONSTANTS blank, nokey, nosource, enc, plain, other, k1, k2, hand
Common ==
  [adv |-> 40, mult |-> 4, lcd |-> 49, latency |-> 49, averaging |-> 0, smiley |-> 0,
   switch |-> FALSE, delay |-> 0, events |-> 0, layout |-> "current"]
Old(layout) == [Common EXCEPT !.delay = blank, !.events = blank, !.layout = layout]
Low ==
  [Common EXCEPT !.adv = 1, !.mult = 2, !.lcd = 1, !.latency = 0, !.averaging = 1, !.events = 1]
High ==
  [Common EXCEPT !.adv = 255, !.mult = 255, !.lcd = 255, !.latency = 255, !.averaging = 255,
                 !.smiley = 7, !.switch = TRUE, !.delay = 15, !.events = 255]
MCReadSettings == {Common, Low, High, Old("legacy"), Old("transitional")}
MCTyped == {0, 1, 2, 3, 30, 31, 80, 255, 510, 512}
MCListed == {enc, plain}
MCUnlisted == {other}
Snap(crypto, key_, beacon_) == [crypto |-> crypto, key |-> key_, beacon |-> beacon_]
MCSnapshots ==
  enc :> <<Snap(FALSE, k1, 7), Snap(TRUE, nokey, 5)>>
  @@ plain :> <<Snap(FALSE, k2, 7)>> @@ other :> <<Snap(TRUE, k2, 20)>>
MCConfigs ==
  {[source |-> nosource, key |-> nokey, beacon |-> 0],
   [source |-> enc, key |-> k1, beacon |-> 5], [source |-> plain, key |-> hand, beacon |-> 7],
   [source |-> other, key |-> k2, beacon |-> 5]}
MCFitting == {5, 7}
MCHandKeys == {hand}
===============================================================================
