-------------------------- MODULE KconfigTristate ---------------------------
(***************************************************************************)
(* The values of kconfig's symbols and how expressions combine them        *)
(* (expr.h).                                                               *)
(***************************************************************************)
EXTENDS Naturals

CONSTANT modules_sym   \* the symbol that enables 'm'

no == 0
mod == 1
yes == 2

Tristate == {no, mod, yes}

(* EXPR_AND and EXPR_OR *)
Least(a, b) == IF a < b THEN a ELSE b
Greatest(a, b) == IF a > b THEN a ELSE b
=============================================================================
