-------------------------- MODULE MCApprovalPrompts --------------------------
EXTENDS ApprovalPrompts
=============================================================================
