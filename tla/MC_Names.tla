------------------------------ MODULE MC_Names ------------------------------
(* is_valid_name on every string of up to MaxLen characters drawn from the *)
(* boundaries of the code's character ranges: '-', '/', '0', '9', ':',     *)
(* 'A', '`', 'a', 'z', '{' and a signed high byte (0xC3 as char).          *)
EXTENDS Names

MCChars == {-61, 45, 47, 48, 57, 58, 65, 96, 97, 122, 123}

=============================================================================
