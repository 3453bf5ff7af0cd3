------------------------------ MODULE MCCalendar ------------------------------
(***************************************************************************)
(* Calendar over more than an era of 400 years: the bounds are in the .cfg *)
(* file, counted from 1970-01-01.                                          *)
(***************************************************************************)
EXTENDS Calendar

\* The year 1583 and the year 2410.
FirstDay == -141000
LastDay  == 161000
===============================================================================
