--------------------------- MODULE MCPhoneConnect ---------------------------
(* PhoneConnect with TlsCert, with as many key pairs as the .cfg says.      *)
EXTENDS PhoneConnect

=============================================================================
