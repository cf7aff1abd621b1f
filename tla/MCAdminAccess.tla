----------------------------- MODULE MCAdminAccess -----------------------------
EXTENDS AdminAccess
=============================================================================
