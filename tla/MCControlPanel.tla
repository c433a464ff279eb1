---------------------------- MODULE MCControlPanel -----------------------------
EXTENDS ControlPanel

(* What actions, fairness and properties read: not the items that are      *)
(* listed, what is muted and where the user put the slider last.           *)
View == <<radio, [s \in Streams |-> volumes[s].level], calls, connectivity, stream,
          volume.level, timer, volumeBusy, moved, button, filesBusy, moves>>
===============================================================================
