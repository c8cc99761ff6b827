--------------------------------- MODULE MCCtap ---------------------------------
\* Small instances of three parts of the CTAP2 application and of the smart-card side, which share no
\* state, side by side: part says which of them a behaviour is about, and the others rest as they
\* were at boot.
EXTENDS Credentials, Vault, LargeBlobs, Apdu

VARIABLE part

CtapInit ==
  /\ part \in {"credentials", "vault", "blobs", "smartcard"}
  /\ CredentialsInit /\ VaultInit /\ LargeBlobsInit /\ ApduInit
  /\ part # "credentials" => stock.creds[LastCredSlot] = NoResident
  /\ part # "vault" => safe.oldKey = NoVaultKey
  /\ part # "blobs" => ~blobGate.pin

CtapNext ==
  /\ UNCHANGED part
  /\ \/ part = "credentials" /\ CredentialsNext /\ UNCHANGED <<vaultVars, blobVars, apduVars>>
     \/ part = "vault"       /\ VaultNext       /\ UNCHANGED <<credVars, blobVars, apduVars>>
     \/ part = "blobs"       /\ LargeBlobsNext  /\ UNCHANGED <<credVars, vaultVars, apduVars>>
     \/ part = "smartcard"   /\ ApduNext        /\ UNCHANGED <<credVars, vaultVars, blobVars>>

CtapSpec == CtapInit /\ [][CtapNext]_<<part, credVars, vaultVars, blobVars, apduVars>>
=================================================================================
