------------------------------ MODULE MC_Binder ------------------------------
EXTENDS Binder
====
