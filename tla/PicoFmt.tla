------------------------------- MODULE PicoFmt -------------------------------
(***************************************************************************)
(* The formatter of the serial build, firmware/picofmt.c, and the line it  *)
(* prints for a light level (serial_main.c).  A text is a sequence of      *)
(* character codes; uart_putchar appends to it.                            *)
(***************************************************************************)
EXTENDS FpLib, Sequences

PICO_MAX_ARGS == 4
Dollar == 36

to_hex_char(ch) == LET n == ch % 16 IN IF n >= 10 THEN n + 65 - 10 ELSE n + 48

\* A mistake: the registers are not exchanged, the low digit comes first.
fmt_hex_byte_unswapped(byte) == <<to_hex_char(byte), to_hex_char(byte \div 16)>>

fmt_hex_byte(byte) == <<to_hex_char(byte \div 16), to_hex_char(byte)>>

\* A word as four digits; a '$' with anything but 0..3 after it prints nothing.
Substitute(args, ch) ==
    IF ch - 48 \in 0..PICO_MAX_ARGS - 1
    THEN fmt_hex_byte(args[ch - 48] \div 256) \o fmt_hex_byte(args[ch - 48] % 256)
    ELSE <<>>

\* One character of the format: after a '$' it is replaced.
Put(out, args, ch) ==
    CASE out.escaped -> [text |-> out.text \o Substitute(args, ch), escaped |-> FALSE]
      [] ~out.escaped /\ ch = Dollar -> [out EXCEPT !.escaped = TRUE]
      [] OTHER -> [out EXCEPT !.text = Append(@, ch)]

pfmt_outln(fmt, args) ==
    LET out[i \in 0..Len(fmt)] ==
          IF i = 0 THEN [text |-> <<>>, escaped |-> FALSE]
          ELSE Put(out[i - 1], args, fmt[i])
    IN out[Len(fmt)].text \o <<13, 10>>

\* fp_to_uint32, as its upper and lower 16 bits.
fp_to_uint32(f) ==
    LET places == 2^(FP16_EXPONENT_MAX - fp_extract_exp(f)) IN
    <<fp_extract_sig(f) \div places, (fp_extract_sig(f) % places) * (65536 \div places)>>

\* FOUT2("Light: $0$1", i_level >> 16, i_level & 0xFFFF), the words left out;
\* the arguments not given keep what they held.
LightFormat == <<Dollar, 48, Dollar, 49>>
LightLine(level, held) ==
    LET i_level == fp_to_uint32(level) IN
    pfmt_outln(LightFormat,
               [k \in 0..PICO_MAX_ARGS - 1 |-> IF k < 2 THEN i_level[k + 1] ELSE held])
==============================================================================
