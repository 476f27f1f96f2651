------------------------------ MODULE MCPackets ------------------------------
EXTENDS Packets

\* 192.168.0.1 and 255.255.255.255, as a little-endian host reads them.
MCHosts == {<<43200, 256>>, <<65535, 65535>>}

MCPorts == {0, 65535, 39455}

\* Low words that bring the sum of the TCP checksum to just below, at and above
\* the numbers whose fold carries once more.
MCSeqNos == {0, 65535} \X
    ({0, 65535} \cup 12202..12210 \cup 34281..34288 \cup 60361..60368)

MCIds == {0, 1, 127, 128, 129, 255, 256, 257, 383, 384, 511, 512, 5999,
          32767, 32768, 65279, 65535, 65536, 65537}
=============================================================================
