------------------------------- MODULE MCStorage -------------------------------
\* Small instances of what is kept in flash, side by side: the records of the file system, the
\* containers on top of it, and the two applets that keep counters there.  part says which of
\* them a behaviour is about, and the others rest in one of their initial states.
EXTENDS FlashChain, Containers, Oath, Otp, TLC

VARIABLE part

StorageInit ==
  /\ part \in {"records", "container", "oath", "otp"}
  /\ ChainInit /\ ContainersInit /\ OathInit /\ OtpInit
  /\ part # "container" => layout = "oath"
  /\ part # "oath" => \A s \in CredSlots : held.creds[s] = NoCred
  /\ part # "otp" => \A s \in OtpSlots : bank[s] = Unused

StorageNext ==
  /\ UNCHANGED part
  /\ \/ part = "records"   /\ ChainNext      /\ UNCHANGED <<containerVars, oathVars, otpVars>>
     \/ part = "container" /\ ContainersNext /\ UNCHANGED <<chainVars, oathVars, otpVars>>
     \/ part = "oath"      /\ OathNext       /\ UNCHANGED <<chainVars, containerVars, otpVars>>
     \/ part = "otp"       /\ OtpNext        /\ UNCHANGED <<chainVars, containerVars, oathVars>>

StorageSpec == StorageInit /\ [][StorageNext]_<<part, chainVars, containerVars, oathVars, otpVars>>

\* Neither the code nor a property tells one file, or one payload, from another.
FileSymmetry == Permutations(Fids) \cup Permutations(Vals)
=================================================================================
