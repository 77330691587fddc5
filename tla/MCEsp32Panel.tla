----------------------------- MODULE MCEsp32Panel -----------------------------
(* Esp32Panel for TLC: a device with one momentary button that it presses once, on a
   network on which a connection that lives loses nothing. *)
EXTENDS Esp32Panel

OneButton == {{"b"}}
=============================================================================
