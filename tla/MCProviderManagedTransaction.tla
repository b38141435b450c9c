--------------------- MODULE MCProviderManagedTransaction ---------------------
(* A provider that may call the callback twice more than it should.         *)
EXTENDS ProviderManagedTransaction

MCInvocations == 3
=============================================================================
