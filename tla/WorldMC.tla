------------------------------ MODULE WorldMC ------------------------------
(* World for TLC: two places.  At <<1, 1>> a small entity reaches the        *)
(* deepest node and a grown one straddles the centre; <<-3, -3>> touches the *)
(* corner of the territory, where a grown entity does not fit any more.      *)
EXTENDS World

MCPositions == {<<1, 1>>, <<-3, -3>>}

=============================================================================
