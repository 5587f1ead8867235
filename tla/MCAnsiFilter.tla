---------------------------- MODULE MCAnsiFilter ------------------------------
(***************************************************************************)
(* AnsiFilter for TLC: alphabets for screen titles, for strings, for CSI   *)
(* sequences with intermediates and with parameters, for queries and keys, *)
(* for text, and for titles with characters that reads cut.                *)
(***************************************************************************)
EXTENDS AnsiFilter

MCAlphabets ==
  {{"ESC", "]", "k", "\\", "BEL", "LF", "x"},
   {"ESC", "]", "P", "BEL", "CAN", "x"},
   {"ESC", "[", "?", "25", "h"},
   {"ESC", "[", "?", " ", "q"},
   {"ESC", "[", "3", ":", ";", "J"},
   {"ESC", "[", "?", "$", "25", "p"},
   {"ESC", "[", ">", "0", "5", "c"},
   {"ESC", "[", "16", "t", "n", "~"},
   {"ESC", "7", "x", "mark", "format", "C1"},
   {"ESC", "k", "x", "mark", "C1wide"}}
===============================================================================
