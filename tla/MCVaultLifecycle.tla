-------------------------- MODULE MCVaultLifecycle --------------------------
EXTENDS VaultLifecycle
=============================================================================
