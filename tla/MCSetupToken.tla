----------------------------- MODULE MCSetupToken -----------------------------
EXTENDS SetupToken

=============================================================================
