-------------------------------- MODULE Fat16 --------------------------------
(***************************************************************************)
(* fs/fat16.rs: the regions of a FAT16 disk, from the fields of the BIOS   *)
(* Parameter Block in its first sector.  The disk holds, in this order,    *)
(* the reserved sectors, the FATs, the root directory and the clusters,    *)
(* which are numbered from 2.                                              *)
(***************************************************************************)
EXTENDS Integers

BLOCK_SIZE == 512
DIR_ENTRY_BYTES == 32
USIZE == 4294967296   \* 2^32

\* What parse() reads of the sector: a byte each, or two.
U8 == {n \in Nat : n < 256}
U16 == {n \in Nat : n < 65536}
Sector == [isFat16 : BOOLEAN,   \* the jump code and the marker at byte 54
           bytesPerSector : U16, sectorsPerCluster : U8, reservedSectors : U16,
           fatCount : U8, rootEntryCount : U16, totalSectors16 : U16,
           sectorsPerFat : U16]

ParseError(sector) ==
    IF ~sector.isFat16 THEN "NotFat16"
    ELSE IF sector.bytesPerSector # BLOCK_SIZE THEN "DeviceError"
    ELSE "Ok"

Parse(sector) ==
    [sector_size |-> BLOCK_SIZE,
     sectors_per_cluster |-> sector.sectorsPerCluster,
     reserved_sectors |-> sector.reservedSectors,
     fat_count |-> sector.fatCount,
     root_entry_count |-> sector.rootEntryCount,
     total_sectors_16 |-> sector.totalSectors16,
     sectors_per_fat |-> sector.sectorsPerFat]

Bpb == [sector_size : {BLOCK_SIZE}, sectors_per_cluster : U8, reserved_sectors : U16,
        fat_count : U8, root_entry_count : U16, total_sectors_16 : U16,
        sectors_per_fat : U16]

DivCeil(a, b) == (a + b - 1) \div b

FatStartSector(bpb) == bpb.reserved_sectors

RootDirStartSector(bpb) == bpb.reserved_sectors + bpb.fat_count * bpb.sectors_per_fat

RootDirSectors(bpb) ==
    DivCeil(bpb.root_entry_count * DIR_ENTRY_BYTES, bpb.sector_size)

DataStartSector(bpb) == RootDirStartSector(bpb) + RootDirSectors(bpb)

\* the data clusters of a FAT of 16-bit entries
Cluster == {n \in U16 : n >= 2}

\* in usize: below cluster 2 the subtraction wraps, where it does not panic
ClusterToSector(bpb, cluster) ==
    (DataStartSector(bpb) + ((cluster - 2) % USIZE) * bpb.sectors_per_cluster) % USIZE
=============================================================================
