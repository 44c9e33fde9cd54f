---- MODULE MC_converter ----
EXTENDS Converter
MCAccepts == {{0}, {1}, {0, 2}}
====
